---- MODULE Spec2Model ----
(***************************************************************************)
(* HotKey Trainer practice engine: TrainerCore (capture file cursor, key   *)
(* normalisation, activation handshake) and ShortcutQuiz (practice loop,   *)
(* session, statistics), with the top-level handlers of quiz_system.main   *)
(* and run_quiz.run_tool_quiz.                                             *)
(*                                                                         *)
(* Strings are sequences of one-character strings, so that strip, lower,   *)
(* split, sort and join are computed as the Python code computes them.     *)
(***************************************************************************)
EXTENDS Integers, Sequences, FiniteSets, TLC

VARIABLES
    \* ---- normalize_keys harness (NormSpec) ----
    nk_input,      \* structured description of the token under test
    nk_result,     \* normalize_keys(token) once computed
    nk_done,       \* TRUE once normalize_keys has been applied
    \* ---- the capture file and the interceptor (external process) ----
    file_exists,          \* the capture file exists: is_trainer_active()
    file_content,         \* its bytes, a sequence of characters
    pending_toggles,      \* toggle hotkeys sent and not yet applied by the interceptor
    written,              \* number of key lines the interceptor has written so far
    now,                  \* time.time(), in seconds
    \* ---- TrainerCore / ShortcutQuiz object state ----
    last_position,        \* TrainerCore.last_position
    stats,                \* ShortcutQuiz.stats
    \* ---- the inputs of one run (never changed) ----
    shortcuts,            \* selected_shortcuts of this session
    keyset,               \* the key tokens the user types in this run
    \* ---- control state of quiz_system.main -> run_quiz -> _practice_loop ----
    pc,                   \* position in the program
    polls,                \* iterations done of the polling loop of ensure_trainer_on/off
    last_ok,              \* value returned by the latest ensure_trainer_on/off call
    idx,                  \* index i of the loop of run_quiz (1-based)
    batch,                \* keys of the for loop of _practice_loop not yet processed
    attempts,             \* local of _practice_loop
    consecutive_backticks,\* local of _practice_loop
    last_backtick_time,   \* local of _practice_loop
    result,               \* value returned by practice_shortcut
    exc,                  \* exception propagating out of run_quiz, or "none"
    exit_code,            \* exit status of the process, -1 while it runs
    \* ---- history (observations only, never read by the program) ----
    off_calls,            \* number of ensure_trainer_off invocations so far
    raise_info,           \* at the raise: was the session active, and off_calls
    sentinel_log,         \* times of the last two sentinel tokens classified (0: none)
    ended_by,             \* kind of the token that ended the latest _practice_loop
    typed,                \* tokens counted as attempts by the current _practice_loop
    fresh_from,           \* file offset: bytes beyond it were appended after the last
                          \* clear_capture_file call
    read_from,            \* offset the latest non-empty read_new_keys started from
    returned,             \* tokens returned by read_new_keys since the last
                          \* clear_capture_file call, in order
    read_status,          \* how the latest read_new_keys call of the current
                          \* _practice_loop went: "ok", "missing" or "error"
    prompted,             \* indices of the shortcuts prompted so far, in order
    first_try,            \* TRUE while every token classified so far was a match
    stats_before,         \* stats when the latest shortcut was prompted
    cursor_from,          \* last_position as the latest clear_capture_file set it
    dropped_to,           \* file offset just behind the tokens a _practice_loop read
                          \* and left unprocessed when it returned (0: none in the
                          \* file; -1: the batch being classified was read from a
                          \* file that was replaced since)
    \* ---- InterceptorManager and the interceptor processes (SupSpec) ----
    procs,                \* pids of the live processes matching "key-interceptor"
    interceptor_process,  \* InterceptorManager.interceptor_process: a pid, or NoPid
    next_pid,             \* pid the next spawned process gets
    sup_ret,              \* value returned by the latest start or stop call
    launched,             \* history: pids of the processes start has spawned
    unlink_alive,         \* history: matching processes alive when the latest stop
                          \* call removed the capture file
    \* ---- TrainerLauncher (LauncherSpec) ----
    lpc,                  \* position of TrainerLauncher.run
    built,                \* ./build/key-interceptor exists
    files_ok,             \* every file of REQUIRED_FILES exists
    lexit,                \* exit status the launcher ends with, -1 while none is set
    lops,                 \* history: what the launcher has done to the interceptor
                          \* and the sessions it has started
    lissues,              \* issues check_prerequisites has displayed
    \* ---- select_practice_mode (SelSpec) ----
    sel_shortcuts,        \* self.shortcuts: the collection, as shortcut ids
    sel_mode,             \* kind of the option chosen: "none", "random" or "set"
    sel_indices,          \* shortcut_indices of the practice set chosen
    sel_pool,             \* random.sample: the items not drawn yet
    sel_num,              \* num_random
    sel_result,           \* the shortcuts the option resolves to
    sel_count,            \* the count _display_option shows for the practice set
    sel_exc,              \* exception raised while resolving, or "none"
    sel_pc,               \* "choose", "sampling" or "done"
    \* ---- the results list (Spec) ----
    outcomes,             \* history: the result of every shortcut run_quiz has
                          \* accounted for, in the order practised
    shown,                \* the marks _display_practiced_shortcuts has printed, by
                          \* position in the list
    \* ---- freestyle mode (LauncherSpec) ----
    fg,                   \* pid of the interceptor run in the foreground, or NoPid
    \* ---- the capture channel read by a watch loop (ChanSpec) ----
    pending_line,         \* rest of the line the interceptor has written in part
    chan_expected,        \* history: the lines completed in the current file since
                          \* the cursor was last reset
    chan_got,             \* history: the tokens read_new_keys has returned from the
                          \* current file since the cursor was last reset
    chan_partial,         \* history: a line of the current file was written in two
                          \* parts
    \* ---- _handle_mistake (MistakeSpec) ----
    hm_key,               \* the mismatching token
    hm_expected,          \* the normal form of the expected shortcut
    hm_difficulty,        \* difficulty of the shortcut
    hm_attempts,          \* attempts made, this one included
    hm_out,               \* what _handle_mistake printed
    hm_done               \* the call has been made

nkvars == <<nk_input, nk_result, nk_done>>

envvars == <<file_exists, file_content, pending_toggles, written, now>>

objvars == <<last_position, stats>>

cfgvars == <<shortcuts, keyset>>

ctlvars == <<pc, polls, last_ok, idx, batch, attempts, consecutive_backticks,
             last_backtick_time, result, exc, exit_code>>

histvars == <<off_calls, raise_info, sentinel_log, ended_by, typed, fresh_from, read_from,
              returned, read_status, prompted, first_try, stats_before, cursor_from, dropped_to,
              outcomes, shown>>

supvars == <<procs, interceptor_process, next_pid, sup_ret, launched, unlink_alive>>

lvars == <<lpc, built, files_ok, lexit, lops, lissues, fg>>

selvars == <<sel_shortcuts, sel_mode, sel_indices, sel_pool, sel_num, sel_result,
             sel_count, sel_exc, sel_pc>>

chanvars == <<pending_line, chan_expected, chan_got, chan_partial>>

mvars == <<hm_key, hm_expected, hm_difficulty, hm_attempts, hm_out, hm_done>>

\* the harnesses of the capture channel and of _handle_mistake
harnessvars == <<chanvars, mvars>>

\* what a session leaves alone: the harnesses, the supervisor, the launcher
offvars == <<nkvars, supvars, lvars, selvars, harnessvars>>

vars == <<nkvars, envvars, objvars, cfgvars, ctlvars, histvars, supvars, lvars, selvars,
          harnessvars>>

-----------------------------------------------------------------------------
(* Characters and Python str primitives                                    *)

\* The backquote character U+0060 (a backquote cannot be written inside a
\* TLA+ string, so the character is given a name).
BQ == "<backquote>"

\* Characters in ascending code point order (what Python's str comparison uses).
CodePoints ==
    <<"\t", "\n", " ", "+", ".", "A", "B", "C", "D", "E", "F", "G", "H", "I",
      "J", "K", "L", "M", "N", "O", "P", "Q", "R", "S", "T", "U", "V", "W",
      "X", "Y", "Z", BQ, "a", "b", "c", "d", "e", "f", "g", "h", "i", "j",
      "k", "l", "m", "n", "o", "p", "q", "r", "s", "t", "u", "v", "w", "x",
      "y", "z">>

ord(c) == CHOOSE i \in 1..Len(CodePoints) : CodePoints[i] = c

\* str.lower() on one character
LowerMap ==
    [A |-> "a", B |-> "b", C |-> "c", D |-> "d", E |-> "e", F |-> "f",
     G |-> "g", H |-> "h", I |-> "i", J |-> "j", K |-> "k", L |-> "l",
     M |-> "m", N |-> "n", O |-> "o", P |-> "p", Q |-> "q", R |-> "r",
     S |-> "s", T |-> "t", U |-> "u", V |-> "v", W |-> "w", X |-> "x",
     Y |-> "y", Z |-> "z"]

\* str.upper() on one character (used only to build test inputs)
UpperMap ==
    [a |-> "A", b |-> "B", c |-> "C", d |-> "D", e |-> "E", f |-> "F",
     g |-> "G", h |-> "H", i |-> "I", j |-> "J", k |-> "K", l |-> "L",
     m |-> "M", n |-> "N", o |-> "O", p |-> "P", q |-> "Q", r |-> "R",
     s |-> "S", t |-> "T", u |-> "U", v |-> "V", w |-> "W", x |-> "X",
     y |-> "Y", z |-> "Z"]

Range(s) == {s[i] : i \in DOMAIN s}

\* Mutant of lower: the case folding is forgotten.
lower_Identity(s) == s

\* str.lower()
lower(s) == [i \in DOMAIN s |-> IF s[i] \in DOMAIN LowerMap THEN LowerMap[s[i]] ELSE s[i]]

Whitespace == {" ", "\t", "\n"}

RECURSIVE lstrip(_)
lstrip(s) == IF s # <<>> /\ Head(s) \in Whitespace THEN lstrip(Tail(s)) ELSE s

RECURSIVE rstrip(_)
rstrip(s) ==
    IF s # <<>> /\ s[Len(s)] \in Whitespace THEN rstrip(SubSeq(s, 1, Len(s) - 1)) ELSE s

\* str.strip()
strip(s) == rstrip(lstrip(s))

\* str.split(sep) for a one-character separator: always at least one part
\* (the parts lie between the positions of the separator, taken in order)
split(s, sep) ==
    LET cuts == {j \in DOMAIN s : s[j] = sep}
        n == Cardinality(cuts)
        cut(k) == IF k = 0 THEN 0
                  ELSE IF k = n + 1 THEN Len(s) + 1
                  ELSE CHOOSE j \in cuts : Cardinality({c \in cuts : c < j}) = k - 1
    IN  [k \in 1..(n + 1) |-> SubSeq(s, cut(k - 1) + 1, cut(k) - 1)]

\* sep.join(parts)
RECURSIVE join(_, _)
join(parts, sep) ==
    IF parts = <<>> THEN <<>>
    ELSE IF Len(parts) = 1 THEN parts[1]
    ELSE parts[1] \o <<sep>> \o join(Tail(parts), sep)

\* a < b for Python strings: lexicographic by code point
RECURSIVE str_lt(_, _)
str_lt(a, b) ==
    IF b = <<>> THEN FALSE
    ELSE IF a = <<>> THEN TRUE
    ELSE IF Head(a) = Head(b) THEN str_lt(Tail(a), Tail(b))
    ELSE ord(Head(a)) < ord(Head(b))

-----------------------------------------------------------------------------
(* TrainerCore.normalize_keys                                              *)

W_cmd   == <<"c", "m", "d">>
W_shift == <<"s", "h", "i", "f", "t">>
W_alt   == <<"a", "l", "t">>
W_ctrl  == <<"c", "t", "r", "l">>
W_fn    == <<"f", "n">>

\* the modifier vocabulary of normalize_keys
ModifierNames == {W_cmd, W_shift, W_alt, W_ctrl, W_fn}

\* Mutant of KeepModifiers: every prefix segment is kept.
KeepModifiers_All(parts) == SubSeq(parts, 1, Len(parts) - 1)

\* the loop over parts[:-1]: segments of the vocabulary are kept, in order
KeepModifiers(parts) ==
    SelectSeq(SubSeq(parts, 1, Len(parts) - 1), LAMBDA p : p \in ModifierNames)

\* Mutant of SortModifiers: the sort is forgotten.
SortModifiers_None(modifiers) == modifiers

\* modifiers.sort()
SortModifiers(modifiers) == SortSeq(modifiers, str_lt)

normalize_keys(keys) ==
    IF "+" \notin Range(keys) THEN lower(strip(keys))
    ELSE LET parts     == split(lower(strip(keys)), "+")
             main_key  == parts[Len(parts)]
             modifiers == SortModifiers(KeepModifiers(parts))
         IN  IF modifiers # <<>>
             THEN join(modifiers, "+") \o <<"+">> \o main_key
             ELSE main_key

-----------------------------------------------------------------------------
(* TrainerCore: the capture file cursor                                    *)

\* clear_capture_file: the new last_position. stat_ok is FALSE when
\* capture_file.stat() raises IOError/OSError although exists() was true.
clear_capture_file(exists, size, stat_ok) ==
    IF exists
    THEN IF stat_ok THEN size ELSE 0
    ELSE 0

\* [line.strip() for line in new_content.split('\n') if line.strip()]
NonEmptyLines(content) ==
    LET lines == split(content, "\n")
        stripped == [i \in DOMAIN lines |-> strip(lines[i])]
    IN  SelectSeq(stripped, LAMBDA l : l # <<>>)

\* Mutant of read_new_keys: the read does not seek to last_position.
read_new_keys_FromStart(exists, content, pos, read_ok) ==
    IF ~exists \/ ~read_ok \/ content = <<>> THEN [keys |-> <<>>, pos |-> pos]
    ELSE [keys |-> NonEmptyLines(content), pos |-> Len(content)]

\* Mutant of read_new_keys: a missing file or a read error rewinds the cursor.
read_new_keys_Rewind(exists, content, pos, read_ok) ==
    IF ~exists \/ ~read_ok THEN [keys |-> <<>>, pos |-> 0]
    ELSE LET new_content == SubSeq(content, pos + 1, Len(content))
         IN  IF new_content # <<>>
             THEN [keys |-> NonEmptyLines(new_content), pos |-> Len(content)]
             ELSE [keys |-> <<>>, pos |-> pos]

\* read_new_keys: the keys returned and the new last_position. read_ok is
\* FALSE when open, seek or read raises IOError/OSError.
read_new_keys(exists, content, pos, read_ok) ==
    IF ~exists THEN [keys |-> <<>>, pos |-> pos]
    ELSE IF ~read_ok THEN [keys |-> <<>>, pos |-> pos]
    ELSE LET new_content == SubSeq(content, pos + 1, Len(content))
         IN  IF new_content # <<>>
             THEN [keys |-> NonEmptyLines(new_content), pos |-> Len(content)]
             ELSE [keys |-> <<>>, pos |-> pos]

\* how a read_new_keys call went
ReadStatus(exists, read_ok) ==
    IF ~exists THEN "missing" ELSE IF ~read_ok THEN "error" ELSE "ok"

-----------------------------------------------------------------------------
(* ShortcutQuiz: constants, shortcuts and statistics                       *)

W_backtick == <<"b", "a", "c", "k", "t", "i", "c", "k">>
W_grave    == <<"g", "r", "a", "v", "e">>

K_backtick == <<BQ>>
K_cmd_s    == <<"c", "m", "d", "+", "s">>
K_cmd_k    == <<"c", "m", "d", "+", "k">>
K_ctrl_c   == <<"c", "t", "r", "l", "+", "c">>
K_cmd_q    == <<"c", "m", "d", "+", "q">>
K_cmd_dot  == <<"c", "m", "d", "+", ".">>
K_chord    == <<"c", "m", "d", "+", "k", " ", "c", "m", "d", "+", "s">>
\* ctrl+c as the interceptor may write it, with upper-case letters
K_Ctrl_C   == <<"C", "t", "r", "l", "+", "C">>

SKIP_EXIT_KEYS == {K_backtick, W_backtick, W_grave}

EMERGENCY_EXIT_KEYS == {K_ctrl_c, K_cmd_q, K_cmd_dot}

\* max_attempts of ensure_trainer_on / ensure_trainer_off
MaxAttempts == 10

\* the window of the double backtick, in seconds
BacktickWindow == 1

\* consecutive backticks that mean exit
ExitPresses == 2

\* the values of the Difficulty enum: keys of stats['by_difficulty']
Difficulties == {1, 2, 3}

\* categories of the loaded tool configuration: keys of stats['by_category']
Categories == {"basic"}

Shortcut(keys, category, difficulty) ==
    [keys |-> keys, category |-> category, difficulty |-> difficulty]

\* The runs explored: the selection practised and the keys the user types.
\* A three-shortcut category, a selection starting with a chord, a selection
\* whose configuration gives a difficulty outside the Difficulty enum (the
\* loader does not validate it), a single shortcut with the emergency key, an
\* empty selection, a shortcut whose expected keys are an emergency combo, and
\* a shortcut whose expected keys are the sentinel, with a user who also
\* presses a bare modifier key.
Scenarios ==
    { [shortcuts |-> <<Shortcut(K_cmd_s, "basic", 1), Shortcut(K_cmd_k, "basic", 2),
                       Shortcut(K_cmd_s, "basic", 3)>>,
       keys |-> {K_cmd_s, K_cmd_k}],
      [shortcuts |-> <<Shortcut(K_chord, "basic", 1), Shortcut(K_cmd_s, "misc", 2)>>,
       keys |-> {K_backtick, K_cmd_s, K_cmd_k}],
      [shortcuts |-> <<Shortcut(K_cmd_k, "basic", 1), Shortcut(K_cmd_s, "basic", 4)>>,
       keys |-> {K_cmd_s, K_cmd_k}],
      [shortcuts |-> <<Shortcut(K_cmd_s, "basic", 1)>>,
       keys |-> {K_backtick, K_cmd_s, K_ctrl_c}],
      [shortcuts |-> <<>>, keys |-> {K_backtick}],
      [shortcuts |-> <<Shortcut(K_cmd_s, "basic", 1), Shortcut(K_ctrl_c, "basic", 1)>>,
       keys |-> {K_Ctrl_C, K_cmd_s}],
      [shortcuts |-> <<Shortcut(K_backtick, "basic", 1), Shortcut(K_cmd_s, "basic", 2)>>,
       keys |-> {K_backtick, W_cmd, K_cmd_s}] }

\* _reset_stats
reset_stats ==
    [completed |-> 0, skipped |-> 0, attempts |-> <<>>,
     by_category |-> [c \in Categories |-> 0],
     by_difficulty |-> [d \in Difficulties |-> 0]]

\* Mutant of update_stats: an exit is counted as a skip.
update_stats_CountsExit(st, res) ==
    IF res = "completed" THEN [st EXCEPT !.completed = @ + 1]
    ELSE [st EXCEPT !.skipped = @ + 1]

\* _update_stats
update_stats(st, res) ==
    IF res = "completed" THEN [st EXCEPT !.completed = @ + 1]
    ELSE IF res = "skipped" THEN [st EXCEPT !.skipped = @ + 1]
    ELSE st

\* Mutant of IsSkipExitKey: no token is taken for the skip/exit key.
IsSkipExitKey_Never(key) == FALSE

\* the test of the skip/exit key in _practice_loop
IsSkipExitKey(key) == lower(key) \in SKIP_EXIT_KEYS \/ key = K_backtick

\* Mutant of IsEmergencyKey: the raw token is compared, not its normal form.
IsEmergencyKey_Raw(key) == key \in EMERGENCY_EXIT_KEYS

\* the test of the emergency exit keys in _practice_loop
IsEmergencyKey(key) == normalize_keys(key) \in EMERGENCY_EXIT_KEYS

\* ---- the exit test of the practice loops of quiz.py and quiz_vscode.py ----

W_escape == <<"e", "s", "c", "a", "p", "e">>
W_esc    == <<"e", "s", "c">>

K_alt_cmd_escape ==
    <<"a", "l", "t", "+", "c", "m", "d", "+", "e", "s", "c", "a", "p", "e">>

\* self.exit_keys of quiz.py and of quiz_vscode.py
LegacyExitKeys == {W_escape, W_esc, K_ctrl_c, K_cmd_q, K_cmd_dot}

\* sub in s, for Python strings
contains(s, sub) ==
    \E i \in 0..(Len(s) - Len(sub)) : SubSeq(s, i + 1, i + Len(sub)) = sub

\* TrainerCore.check_for_exit, called with a list of exit keys
check_for_exit(key, exit_keys) ==
    normalize_keys(key) \in exit_keys \/ contains(normalize_keys(key), W_escape)

\* consecutive_backticks after a backtick at time t
BacktickCount(count, last, t) ==
    (IF t - last > BacktickWindow THEN 0 ELSE count) + 1

\* Mutant of BacktickResult: a single backtick already exits.
BacktickResult_Single(count) == IF count >= 1 THEN "exit" ELSE "skipped"

\* the value _practice_loop returns on a backtick
BacktickResult(count) == IF count >= ExitPresses THEN "exit" ELSE "skipped"

\* the comparison that completes a shortcut
IsMatch(key, shortcut) == normalize_keys(key) = normalize_keys(shortcut.keys)

-----------------------------------------------------------------------------
(* Bounds of the model                                                     *)

\* key lines the interceptor writes in one run
MaxKeys == 3

\* seconds that pass during the practice loops of one run
MaxTicks == 2

\* time.time() when the session starts (seconds since the epoch, far above the
\* window; only differences matter)
StartTime == 5

-----------------------------------------------------------------------------
(* The session: quiz_system.main / run_quiz.run_tool_quiz -> run_quiz      *)

RunningPcs ==
    {"pre_off", "pre_off_poll", "wait_enter", "on", "on_poll", "manual",
     "manual_pressed", "prompt", "loop", "classify", "stats", "post_off",
     "post_off_poll", "results"}

\* positions between the activation of capturing and the end of run_quiz
ActivePcs == {"prompt", "loop", "classify", "stats", "post_off", "post_off_poll"}

\* positions of the for loop of run_quiz
PracticePcs == {"prompt", "loop", "classify", "stats"}

NoRaise == [raised |-> FALSE, active |-> FALSE, off_calls |-> 0]

\* InterceptorManager.interceptor_process is None
NoPid == 0

\* no start or stop call has returned yet
NoRet == [op |-> "none", success |-> FALSE, pid |-> NoPid, spawned |-> FALSE]

\* the launcher is not part of the run
LauncherIdle ==
    /\ lpc = "none"
    /\ built = TRUE
    /\ files_ok = TRUE
    /\ lexit = -1
    /\ lops = {}
    /\ lissues = {}
    /\ fg = NoPid

\* no watch loop reads the capture channel, and _handle_mistake is not called
\* on its own
HarnessIdle ==
    /\ pending_line = <<>>
    /\ chan_expected = <<>>
    /\ chan_got = <<>>
    /\ chan_partial = FALSE
    /\ hm_key = <<>>
    /\ hm_expected = <<>>
    /\ hm_difficulty = 1
    /\ hm_attempts = 0
    /\ hm_out = [try_again |-> FALSE, hints |-> <<>>]
    /\ hm_done = FALSE

\* a practice set without shortcut_indices (None)
NoIndices == [present |-> FALSE, list |-> <<>>]

\* no practice mode is being selected
SelIdle ==
    /\ sel_shortcuts = <<>>
    /\ sel_mode = "none"
    /\ sel_indices = NoIndices
    /\ sel_pool = <<>>
    /\ sel_num = 0
    /\ sel_result = <<>>
    /\ sel_count = 0
    /\ sel_exc = "none"
    /\ sel_pc = "idle"

\* the supervisor is not part of a practice session (quiz_system runs as a
\* process of its own)
SupIdle ==
    /\ procs = {}
    /\ interceptor_process = NoPid
    /\ next_pid = 1
    /\ sup_ret = NoRet
    /\ launched = {}
    /\ unlink_alive = {}

Init ==
    /\ nk_input = [prefix |-> <<>>, main |-> <<>>, style |-> "lower"]
    /\ nk_result = <<>>
    /\ nk_done = FALSE
    /\ file_exists \in BOOLEAN
    /\ file_content = <<>>
    /\ pending_toggles = 0
    /\ written = 0
    /\ now = StartTime
    /\ last_position = 0
    /\ stats = reset_stats
    /\ \E sc \in Scenarios : shortcuts = sc.shortcuts /\ keyset = sc.keys
    /\ pc = "pre_off"
    /\ polls = 0
    /\ last_ok = TRUE
    /\ idx = 1
    /\ batch = <<>>
    /\ attempts = 0
    /\ consecutive_backticks = 0
    /\ last_backtick_time = 0
    /\ result = "none"
    /\ exc = "none"
    /\ exit_code = -1
    /\ off_calls = 0
    /\ raise_info = NoRaise
    /\ sentinel_log = <<0, 0>>
    /\ ended_by = "none"
    /\ typed = <<>>
    /\ fresh_from = 0
    /\ read_from = 0
    /\ returned = <<>>
    /\ read_status = "ok"
    /\ prompted = <<>>
    /\ first_try = TRUE
    /\ stats_before = reset_stats
    /\ cursor_from = 0
    /\ dropped_to = 0
    /\ outcomes = <<>>
    /\ shown = <<>>
    /\ SupIdle
    /\ HarnessIdle
    /\ LauncherIdle
    /\ SelIdle

\* ---- the environment: the interceptor process, the user, the clock ----

\* The interceptor applies one toggle hotkey: it starts capturing (creates the
\* capture file) or stops capturing (removes it).
ApplyToggle ==
    /\ pc \in RunningPcs
    /\ pending_toggles > 0
    /\ pending_toggles' = pending_toggles - 1
    /\ file_exists' = ~file_exists
    /\ file_content' = <<>>
    /\ fresh_from' = 0
    /\ dropped_to' = IF pc = "classify" THEN -1 ELSE 0
    /\ UNCHANGED <<written, now, offvars, cfgvars, objvars, ctlvars, off_calls, raise_info,
                   sentinel_log, ended_by, typed, read_from, returned, read_status,
                   prompted, first_try, stats_before, cursor_from,
                   outcomes, shown>>

\* The interceptor, capturing, appends one key token as a line. Keys typed
\* before the first prompt are left in the file as keys typed while the first
\* prompt is about to be shown are, so only the latter are modelled.
WriteKey ==
    /\ pc \in PracticePcs
    /\ file_exists
    /\ written < MaxKeys
    /\ \E k \in keyset : file_content' = file_content \o k \o <<"\n">>
    /\ written' = written + 1
    /\ UNCHANGED <<file_exists, pending_toggles, now, offvars, cfgvars, objvars, ctlvars, histvars>>

\* One second passes. The clock is read only when a backtick is classified
\* (time.time() in _practice_loop) and only differences of its readings are
\* used, so the passing of time is modelled right before such a reading.
Tick ==
    /\ pc = "classify"
    /\ IsSkipExitKey(Head(batch))
    /\ now < StartTime + MaxTicks
    /\ now' = now + 1
    /\ UNCHANGED <<file_exists, file_content, pending_toggles, written, offvars,
                   cfgvars, objvars, ctlvars, histvars>>

\* At the manual confirmation prompt the user presses the toggle hotkey.
UserToggle ==
    /\ pc = "manual"
    /\ pc' = "manual_pressed"
    /\ pending_toggles' = pending_toggles + 1
    /\ UNCHANGED <<file_exists, file_content, written, now, offvars, cfgvars, objvars, polls,
                   last_ok, idx, batch, attempts, consecutive_backticks,
                   last_backtick_time, result, exc, exit_code, histvars>>

\* ---- ensure_trainer_off / ensure_trainer_on ----

\* where run_quiz continues after the ensure_trainer_off call made at p (its
\* return value is not used)
AfterOff(p) == IF p \in {"pre_off", "pre_off_poll"} THEN "wait_enter" ELSE "results"

\* ensure_trainer_off up to its polling loop: the initial check, then one
\* toggle hotkey (send_toggle_shortcut)
EnsureOffCheck ==
    /\ pc \in {"pre_off", "post_off"}
    /\ off_calls' = off_calls + 1
    /\ IF ~file_exists
       THEN /\ last_ok' = TRUE
            /\ pc' = AfterOff(pc)
            /\ UNCHANGED <<pending_toggles, polls>>
       ELSE /\ pending_toggles' = pending_toggles + 1
            /\ polls' = 0
            /\ pc' = IF pc = "pre_off" THEN "pre_off_poll" ELSE "post_off_poll"
            /\ UNCHANGED last_ok
    /\ UNCHANGED <<file_exists, file_content, written, now, offvars, cfgvars, objvars, idx,
                   batch, attempts, consecutive_backticks, last_backtick_time,
                   result, exc, exit_code, raise_info, sentinel_log, ended_by,
                   typed, fresh_from, read_from, returned, read_status, prompted,
                   first_try, stats_before, cursor_from, dropped_to,
                   outcomes, shown>>

\* one iteration of the polling loop of ensure_trainer_off
EnsureOffPoll ==
    /\ pc \in {"pre_off_poll", "post_off_poll"}
    /\ IF ~file_exists
       THEN /\ last_ok' = TRUE
            /\ pc' = AfterOff(pc)
            /\ UNCHANGED polls
       ELSE IF polls + 1 < MaxAttempts
       THEN /\ polls' = polls + 1
            /\ UNCHANGED <<pc, last_ok>>
       ELSE /\ polls' = polls + 1
            /\ last_ok' = FALSE
            /\ pc' = AfterOff(pc)
    /\ UNCHANGED <<envvars, offvars, cfgvars, objvars, idx, batch, attempts,
                   consecutive_backticks, last_backtick_time, result, exc,
                   exit_code, histvars>>

\* input("Press Enter to start...")
PressEnter ==
    /\ pc = "wait_enter"
    /\ pc' = "on"
    /\ UNCHANGED <<envvars, offvars, cfgvars, objvars, polls, last_ok, idx, batch, attempts,
                   consecutive_backticks, last_backtick_time, result, exc,
                   exit_code, histvars>>

\* Mutant of LoopPc: the loop does not stop at the end of the selection.
LoopPc_NoEnd(i) == "prompt"

\* where the for loop of run_quiz goes with index i
LoopPc(i) == IF i <= Len(shortcuts) THEN "prompt" ELSE "post_off"

\* Mutant of EnsureOnCheck: the toggle is sent without looking at the file.
EnsureOnCheck_AlwaysToggle ==
    /\ pc = "on"
    /\ pending_toggles' = pending_toggles + 1
    /\ polls' = 0
    /\ pc' = "on_poll"
    /\ UNCHANGED <<file_exists, file_content, written, now, offvars, cfgvars, objvars, idx,
                   last_ok, batch, attempts, consecutive_backticks, last_backtick_time,
                   result, exc, exit_code, histvars>>

\* _activate_trainer -> ensure_trainer_on up to its polling loop
EnsureOnCheck ==
    /\ pc = "on"
    /\ IF file_exists
       THEN /\ last_ok' = TRUE
            /\ pc' = LoopPc(idx)
            /\ UNCHANGED <<pending_toggles, polls>>
       ELSE /\ pending_toggles' = pending_toggles + 1
            /\ polls' = 0
            /\ pc' = "on_poll"
            /\ UNCHANGED last_ok
    /\ UNCHANGED <<file_exists, file_content, written, now, offvars, cfgvars, objvars, idx,
                   batch, attempts, consecutive_backticks, last_backtick_time,
                   result, exc, exit_code, histvars>>

\* Mutant of EnsureOnPoll: the loop gives up one poll too late.
EnsureOnPoll_ExtraPoll ==
    /\ pc = "on_poll"
    /\ IF file_exists
       THEN /\ last_ok' = TRUE
            /\ pc' = LoopPc(idx)
            /\ UNCHANGED polls
       ELSE IF polls + 1 < MaxAttempts + 1
       THEN /\ polls' = polls + 1
            /\ UNCHANGED <<pc, last_ok>>
       ELSE /\ polls' = polls + 1
            /\ last_ok' = FALSE
            /\ pc' = "manual"
    /\ UNCHANGED <<envvars, offvars, cfgvars, objvars, idx, batch, attempts,
                   consecutive_backticks, last_backtick_time, result, exc,
                   exit_code, histvars>>

\* one iteration of the polling loop of ensure_trainer_on
EnsureOnPoll ==
    /\ pc = "on_poll"
    /\ IF file_exists
       THEN /\ last_ok' = TRUE
            /\ pc' = LoopPc(idx)
            /\ UNCHANGED polls
       ELSE IF polls + 1 < MaxAttempts
       THEN /\ polls' = polls + 1
            /\ UNCHANGED <<pc, last_ok>>
       ELSE /\ polls' = polls + 1
            /\ last_ok' = FALSE
            /\ pc' = "manual"
    /\ UNCHANGED <<envvars, offvars, cfgvars, objvars, idx, batch, attempts,
                   consecutive_backticks, last_backtick_time, result, exc,
                   exit_code, histvars>>

\* _activate_trainer: input("Press Enter when you see ... Trainer ON")
ManualEnter ==
    /\ pc \in {"manual", "manual_pressed"}
    /\ pc' = LoopPc(idx)
    /\ UNCHANGED <<envvars, offvars, cfgvars, objvars, polls, last_ok, idx, batch, attempts,
                   consecutive_backticks, last_backtick_time, result, exc,
                   exit_code, histvars>>

\* ---- practice_shortcut: _display_shortcut_prompt, then _practice_loop ----

\* Mutant of Prompt: clear_capture_file truncates the capture file.
Prompt_Truncate ==
    /\ pc = "prompt"
    /\ file_content' = <<>>
    /\ last_position' = 0
    /\ cursor_from' = 0
    /\ fresh_from' = 0
    /\ returned' = <<>>
    /\ prompted' = Append(prompted, idx)
    /\ stats_before' = stats
    /\ pc' = "loop"
    /\ UNCHANGED <<file_exists, pending_toggles, written, now, offvars, cfgvars, stats,
                   polls, last_ok, idx, batch, attempts, consecutive_backticks,
                   last_backtick_time, result, exc, exit_code, off_calls, raise_info,
                   sentinel_log, ended_by, typed, read_from, read_status, first_try,
                   dropped_to,
                   outcomes, shown>>

\* _display_shortcut_prompt (clear_capture_file) and the entry of _practice_loop
Prompt ==
    /\ pc = "prompt"
    /\ \E stat_ok \in BOOLEAN :
          /\ last_position' = clear_capture_file(file_exists, Len(file_content), stat_ok)
          /\ cursor_from' = clear_capture_file(file_exists, Len(file_content), stat_ok)
    /\ fresh_from' = IF file_exists THEN Len(file_content) ELSE 0
    /\ attempts' = 0
    /\ consecutive_backticks' = 0
    /\ last_backtick_time' = 0
    /\ batch' = <<>>
    /\ typed' = <<>>
    /\ returned' = <<>>
    /\ read_status' = "ok"
    /\ prompted' = Append(prompted, idx)
    /\ stats_before' = stats
    /\ ended_by' = "none"
    /\ pc' = "loop"
    /\ UNCHANGED <<envvars, offvars, cfgvars, stats, polls, last_ok, idx, result,
                   exc, exit_code, off_calls, raise_info, sentinel_log, read_from,
                   first_try, dropped_to,
                   outcomes, shown>>

\* keys = self.read_new_keys(); an empty list leads to time.sleep(0.05)
Poll ==
    /\ pc = "loop"
    /\ \E read_ok \in BOOLEAN :
          LET r == read_new_keys(file_exists, file_content, last_position, read_ok)
          IN  /\ last_position' = r.pos
              /\ batch' = r.keys
              /\ pc' = IF r.keys = <<>> THEN "loop" ELSE "classify"
              /\ read_from' = IF r.keys = <<>> THEN read_from ELSE last_position
              /\ returned' = returned \o r.keys
              /\ read_status' = ReadStatus(file_exists, read_ok)
    /\ UNCHANGED <<envvars, offvars, cfgvars, stats, polls, last_ok, idx, attempts,
                   consecutive_backticks, last_backtick_time, result, exc,
                   exit_code, off_calls, raise_info, sentinel_log, ended_by, typed,
                   fresh_from, prompted, first_try, stats_before, cursor_from, dropped_to,
                   outcomes, shown>>

\* Mutant of handle_success_category: the attempt count is not recorded.
handle_success_category_NoAttempts(st, shortcut, n) ==
    [st EXCEPT !.by_category = IF shortcut.category \in DOMAIN @
                               THEN [@ EXCEPT ![shortcut.category] = @ + 1]
                               ELSE @]

\* _handle_success up to the by_category update
handle_success_category(st, shortcut, n) ==
    [st EXCEPT !.attempts = Append(@, n),
               !.by_category = IF shortcut.category \in DOMAIN @
                               THEN [@ EXCEPT ![shortcut.category] = @ + 1]
                               ELSE @]

\* Mutant of handle_success_difficulty: by_difficulty is left as it is.
handle_success_difficulty_None(st, shortcut) == st

\* _handle_success: the by_difficulty update (KeyError outside the enum)
handle_success_difficulty(st, shortcut) ==
    [st EXCEPT !.by_difficulty = [@ EXCEPT ![shortcut.difficulty] = @ + 1]]

\* Mutant of count_attempt: only a token that holds a "+" is counted.
count_attempt_Combos(n, key) == IF "+" \in Range(key) THEN n + 1 ELSE n

\* attempts += 1, whatever the token is
count_attempt(n, key) == n + 1

\* one iteration of "for key in keys" in _practice_loop. When the loop
\* returns or raises, its locals are gone: they are set back to their entry
\* values.
ClassifyKey ==
    /\ pc = "classify"
    /\ LET key == Head(batch)
           shortcut == shortcuts[idx]
           Leave == /\ batch' = <<>>
                    /\ attempts' = 0
                    /\ consecutive_backticks' = 0
                    /\ last_backtick_time' = 0
                    /\ dropped_to' = IF dropped_to = -1 THEN 0
                                      ELSE IF Tail(batch) = <<>> THEN dropped_to
                                      ELSE last_position
       IN  IF IsSkipExitKey(key)
           THEN LET count == BacktickCount(consecutive_backticks, last_backtick_time, now)
                IN  /\ result' = BacktickResult(count)
                    /\ sentinel_log' = <<sentinel_log[2], now>>
                    /\ ended_by' = "sentinel"
                    /\ pc' = "stats"
                    /\ Leave
                    /\ first_try' = FALSE
                    /\ UNCHANGED <<stats, typed, exc, raise_info>>
           ELSE IF IsEmergencyKey(key)
           THEN /\ result' = "exit"
                /\ ended_by' = "emergency"
                /\ pc' = "stats"
                /\ Leave
                /\ first_try' = FALSE
                /\ UNCHANGED <<stats, typed, exc, raise_info, sentinel_log>>
           ELSE /\ typed' = Append(typed, key)
                /\ UNCHANGED sentinel_log
                /\ IF IsMatch(key, shortcut)
                   THEN /\ Leave
                        /\ ended_by' = "match"
                        /\ UNCHANGED first_try
                        /\ IF shortcut.difficulty \in Difficulties
                           THEN /\ stats' = handle_success_difficulty(
                                       handle_success_category(stats, shortcut,
                                                               count_attempt(attempts, key)),
                                       shortcut)
                                /\ result' = "completed"
                                /\ pc' = "stats"
                                /\ UNCHANGED <<exc, raise_info>>
                           ELSE /\ stats' = handle_success_category(stats, shortcut,
                                                                   count_attempt(attempts, key))
                                /\ exc' = "KeyError"
                                /\ raise_info' = [raised |-> TRUE, active |-> TRUE,
                                                  off_calls |-> off_calls]
                                /\ pc' = "raised"
                                /\ UNCHANGED result
                   ELSE /\ consecutive_backticks' = 0
                        /\ first_try' = FALSE
                        /\ attempts' = count_attempt(attempts, key)
                        /\ batch' = Tail(batch)
                        /\ pc' = IF Tail(batch) = <<>> THEN "loop" ELSE "classify"
                        /\ dropped_to' = IF dropped_to = -1 /\ Tail(batch) = <<>> THEN 0
                                          ELSE dropped_to
                        /\ UNCHANGED <<last_backtick_time, stats, result, exc, raise_info,
                                       ended_by>>
    /\ UNCHANGED <<envvars, offvars, cfgvars, last_position, polls, last_ok, idx,
                   exit_code, off_calls, fresh_from, read_from, returned, read_status,
                   prompted, stats_before, cursor_from,
                   outcomes, shown>>

\* run_quiz: self._update_stats(result), then break or the next shortcut
UpdateStats ==
    /\ pc = "stats"
    /\ stats' = update_stats(stats, result)
    /\ IF result = "exit"
       THEN /\ pc' = "post_off"
            /\ UNCHANGED idx
       ELSE /\ idx' = idx + 1
            /\ pc' = LoopPc(idx + 1)
    /\ read_from' = 0
    /\ returned' = <<>>
    /\ outcomes' = Append(outcomes, result)
    /\ UNCHANGED <<envvars, offvars, cfgvars, last_position, polls, last_ok, batch,
                   attempts, consecutive_backticks, last_backtick_time, result, exc,
                   exit_code, off_calls, raise_info, sentinel_log, ended_by, fresh_from,
                   typed, read_status, prompted, first_try, stats_before, cursor_from,
                   dropped_to,
                   shown>>

\* _display_practiced_shortcuts: the marks printed, by position in
\* shortcuts[:total_attempted]; nothing is printed when total_attempted is 0
display_practiced_shortcuts(st, selection) ==
    LET total_attempted == st.completed + st.skipped
        n == IF total_attempted <= Len(selection) THEN total_attempted ELSE Len(selection)
    IN  [i \in 1..n |-> IF i <= st.completed THEN "completed" ELSE "skipped"]

\* run_quiz: self.show_results(selected_shortcuts); run_quiz returns
ShowResults ==
    /\ pc = "results"
    /\ shown' = display_practiced_shortcuts(stats, shortcuts)
    /\ pc' = "returned"
    /\ UNCHANGED <<envvars, offvars, cfgvars, objvars, polls, last_ok, idx, batch, attempts,
                   consecutive_backticks, last_backtick_time, result, exc,
                   exit_code, off_calls, raise_info, sentinel_log, ended_by, typed,
                   fresh_from, read_from, returned, read_status, prompted, first_try,
                   stats_before, cursor_from, dropped_to, outcomes>>

\* ---- the top level: main of quiz_system, run_tool_quiz of run_quiz ----

\* KeyboardInterrupt is raised in run_quiz, which has no handler: it leaves
\* run_quiz at once, and the locals of run_quiz and of what it called are gone
Interrupt ==
    /\ pc \in RunningPcs
    /\ exc' = "KeyboardInterrupt"
    /\ raise_info' = [raised |-> TRUE, active |-> pc \in ActivePcs, off_calls |-> off_calls]
    /\ pc' = "raised"
    /\ polls' = 0
    /\ idx' = 1
    /\ batch' = <<>>
    /\ attempts' = 0
    /\ consecutive_backticks' = 0
    /\ last_backtick_time' = 0
    /\ result' = "none"
    /\ returned' = <<>>
    /\ read_status' = "ok"
    /\ dropped_to' = IF dropped_to = -1 THEN 0 ELSE dropped_to
    /\ UNCHANGED <<envvars, offvars, cfgvars, objvars, last_ok, exit_code, off_calls,
                   sentinel_log, ended_by, typed, fresh_from, read_from, prompted,
                   first_try, stats_before, cursor_from,
                   outcomes, shown>>

\* the except clauses of main: a message, then sys.exit(0) for
\* KeyboardInterrupt and sys.exit(1) for any other exception. No other call
\* is made. The process ends, and the quiz object with it.
MainHandler ==
    /\ pc = "raised"
    /\ exit_code' = IF exc = "KeyboardInterrupt" THEN 0 ELSE 1
    /\ pc' = "exited"
    /\ last_position' = 0
    /\ stats' = reset_stats
    /\ UNCHANGED <<envvars, offvars, cfgvars, polls, last_ok, idx, batch, attempts,
                   consecutive_backticks, last_backtick_time, result, exc, histvars>>

\* run_quiz returned: main ends and the process exits with status 0
MainReturn ==
    /\ pc = "returned"
    /\ exit_code' = 0
    /\ pc' = "exited"
    /\ last_position' = 0
    /\ stats' = reset_stats
    /\ UNCHANGED <<envvars, offvars, cfgvars, polls, last_ok, idx, batch, attempts,
                   consecutive_backticks, last_backtick_time, result, exc, histvars>>

Next ==
    \/ ApplyToggle
    \/ WriteKey
    \/ Tick
    \/ UserToggle
    \/ EnsureOffCheck
    \/ EnsureOffPoll
    \/ PressEnter
    \/ EnsureOnCheck
    \/ EnsureOnPoll
    \/ ManualEnter
    \/ Prompt
    \/ Poll
    \/ ClassifyKey
    \/ UpdateStats
    \/ ShowResults
    \/ Interrupt
    \/ MainHandler
    \/ MainReturn

Spec == Init /\ [][Next]_vars

-----------------------------------------------------------------------------
(* The handshakes alone: run_quiz over an empty selection, not interrupted. *)
(* The polling loops of ensure_trainer_off and ensure_trainer_on run as    *)
(* long as the process runs; nothing is assumed of the interceptor.        *)

HandshakeInit == Init /\ shortcuts = <<>>

HandshakeNext ==
    \/ ApplyToggle
    \/ UserToggle
    \/ EnsureOffCheck
    \/ EnsureOffPoll
    \/ PressEnter
    \/ EnsureOnCheck
    \/ EnsureOnPoll
    \/ ManualEnter
    \/ ShowResults
    \/ MainReturn

HandshakeSpec ==
    /\ HandshakeInit
    /\ [][HandshakeNext]_vars
    /\ WF_vars(EnsureOffPoll)
    /\ WF_vars(EnsureOnPoll)

-----------------------------------------------------------------------------
(* Inputs of the normalize_keys harness                                    *)

W_foo   == <<"f", "o", "o">>
W_k_cmd == <<"k", " ", "c", "m", "d">>
W_tab   == <<"t", "a", "b">>

\* longest prefix (in segments) of a token with unrecognised or repeated segments
MaxPrefix == 2

MainKeys == {<<"n">>, <<"a">>, <<".">>, W_tab, <<>>}

\* every ordering of every subset of the modifier vocabulary
ModOrderings ==
    {p \in UNION {[1..n -> ModifierNames] : n \in 0..Cardinality(ModifierNames)} :
        \A i, j \in DOMAIN p : i # j => p[i] # p[j]}

\* prefixes with unrecognised segments and repeated modifiers
OtherPrefixes ==
    UNION {[1..n -> {W_foo, W_k_cmd, W_cmd, W_shift}] : n \in 0..MaxPrefix}

CaseStyles == {"lower", "upper", "first", "alternate"}

\* a main key typed after a blank, as in "foo+ n"
PaddedMainKeys == {<<" ", "n">>}

NormInputs ==
    [prefix : ModOrderings \cup OtherPrefixes, main : MainKeys, style : CaseStyles]
        \cup [prefix : OtherPrefixes \ {<<>>}, main : PaddedMainKeys, style : {"lower"}]

\* the token written in lower case
BaseToken(in) == join(in.prefix \o <<in.main>>, "+")

\* the token as typed: the base token with some letters in upper case
Token(in) ==
    LET b == BaseToken(in)
        up(c) == IF c \in DOMAIN UpperMap THEN UpperMap[c] ELSE c
    IN  [i \in DOMAIN b |->
            CASE in.style = "lower"     -> b[i]
              [] in.style = "upper"     -> up(b[i])
              [] in.style = "first"     -> IF i = 1 THEN up(b[i]) ELSE b[i]
              [] in.style = "alternate" -> IF i % 2 = 0 THEN up(b[i]) ELSE b[i]]

\* the session does not run in the harness
SessionIdle ==
    /\ file_exists = FALSE
    /\ file_content = <<>>
    /\ pending_toggles = 0
    /\ written = 0
    /\ now = StartTime
    /\ last_position = 0
    /\ stats = reset_stats
    /\ shortcuts = <<>>
    /\ keyset = {}
    /\ pc = "harness"
    /\ polls = 0
    /\ last_ok = TRUE
    /\ idx = 1
    /\ batch = <<>>
    /\ attempts = 0
    /\ consecutive_backticks = 0
    /\ last_backtick_time = 0
    /\ result = "none"
    /\ exc = "none"
    /\ exit_code = -1
    /\ off_calls = 0
    /\ raise_info = NoRaise
    /\ sentinel_log = <<0, 0>>
    /\ ended_by = "none"
    /\ typed = <<>>
    /\ fresh_from = 0
    /\ read_from = 0
    /\ returned = <<>>
    /\ read_status = "ok"
    /\ prompted = <<>>
    /\ first_try = TRUE
    /\ stats_before = reset_stats
    /\ cursor_from = 0
    /\ dropped_to = 0
    /\ outcomes = <<>>
    /\ shown = <<>>

NormInit ==
    /\ nk_input \in NormInputs
    /\ nk_result = <<>>
    /\ nk_done = FALSE
    /\ SessionIdle
    /\ SupIdle
    /\ HarnessIdle
    /\ LauncherIdle
    /\ SelIdle

\* one call of normalize_keys on the token
Normalize ==
    /\ ~nk_done
    /\ nk_result' = normalize_keys(Token(nk_input))
    /\ nk_done' = TRUE
    /\ UNCHANGED <<nk_input, envvars, objvars, cfgvars, ctlvars, histvars, harnessvars, supvars,
                   lvars,
                   selvars>>

NormNext == Normalize

NormSpec == NormInit /\ [][NormNext]_vars

-----------------------------------------------------------------------------
(* InterceptorManager: start and stop of the interceptor process           *)

\* pids handed out in one run
MaxPids == 3

\* the first line of the output of pgrep: the lowest pid
FirstPid(ps) == CHOOSE p \in ps : \A q \in ps : p <= q

\* Mutant of is_running: no running interceptor is ever found.
is_running_Never(ps) == FALSE

\* is_running: pgrep -f "key-interceptor" finds a process
is_running(ps) == ps # {}

\* get_pid: the first pid pgrep prints, or None
get_pid(ps) == IF ps = {} THEN NoPid ELSE FirstPid(ps)

StartRet(success, pid, spawned) ==
    [op |-> "start", success |-> success, pid |-> pid, spawned |-> spawned]

SupInit ==
    /\ nk_input = [prefix |-> <<>>, main |-> <<>>, style |-> "lower"]
    /\ nk_result = <<>>
    /\ nk_done = FALSE
    /\ SessionIdle
    /\ SupIdle
    /\ HarnessIdle
    /\ LauncherIdle
    /\ SelIdle

\* InterceptorManager.start. When an interceptor is running nothing is
\* launched and the pid of get_pid is returned (processes may exit between
\* the pgrep of is_running and the pgrep of get_pid). Otherwise Popen either
\* raises, or spawns a process that after one second is alive or has exited.
StartCall ==
    /\ IF is_running(procs)
       THEN \E gone \in SUBSET procs :
               /\ procs' = procs \ gone
               /\ sup_ret' = StartRet(TRUE, get_pid(procs \ gone), FALSE)
               /\ UNCHANGED <<interceptor_process, next_pid, launched>>
       ELSE \/ /\ sup_ret' = StartRet(FALSE, NoPid, FALSE)
               /\ UNCHANGED <<procs, interceptor_process, next_pid, launched>>
            \/ /\ next_pid <= MaxPids
               /\ interceptor_process' = next_pid
               /\ launched' = launched \cup {next_pid}
               /\ next_pid' = next_pid + 1
               /\ \/ /\ procs' = procs \cup {next_pid}
                     /\ sup_ret' = StartRet(TRUE, next_pid, TRUE)
                  \/ /\ procs' = procs
                     /\ sup_ret' = StartRet(FALSE, NoPid, TRUE)
    /\ UNCHANGED <<unlink_alive, nkvars, envvars, objvars, cfgvars, ctlvars, histvars, harnessvars,
                   selvars>>

\* a call of start from outside the launcher
Start == StartCall /\ UNCHANGED lvars

\* InterceptorManager.stop: the owned process is terminated (killed after two
\* seconds), pkill signals every other matching process (best effort), and the
\* capture file is removed if present (an error of unlink is ignored).
StopCall ==
    /\ \E survivors \in SUBSET (procs \ {interceptor_process}) :
          /\ procs' = survivors
          /\ \E unlink_ok \in BOOLEAN :
                IF file_exists /\ unlink_ok
                THEN /\ file_exists' = FALSE
                     /\ file_content' = <<>>
                     /\ unlink_alive' = survivors
                ELSE UNCHANGED <<file_exists, file_content, unlink_alive>>
    /\ interceptor_process' = NoPid
    /\ sup_ret' = [op |-> "stop", success |-> TRUE, pid |-> NoPid, spawned |-> FALSE]
    /\ UNCHANGED <<next_pid, launched, pending_toggles, written, now, nkvars, objvars,
                   cfgvars, ctlvars, histvars, harnessvars, selvars>>

\* a call of stop from outside the launcher
Stop == StopCall /\ UNCHANGED lvars

\* a running interceptor exits by itself or is killed from outside
ProcessExits ==
    /\ \E p \in procs : procs' = procs \ {p}
    /\ UNCHANGED <<interceptor_process, next_pid, sup_ret, launched, unlink_alive, nkvars,
                   envvars, objvars, cfgvars, ctlvars, histvars, harnessvars, lvars, selvars>>

\* an interceptor is started by somebody else (by hand, by another launcher)
ExternalSpawn ==
    /\ next_pid <= MaxPids
    /\ procs' = procs \cup {next_pid}
    /\ next_pid' = next_pid + 1
    /\ UNCHANGED <<interceptor_process, sup_ret, launched, unlink_alive, nkvars, envvars,
                   objvars, cfgvars, ctlvars, histvars, harnessvars, lvars, selvars>>

\* a running interceptor receives the toggle hotkey: capturing starts (the
\* capture file is created) or stops (it is removed)
HotkeyToggle ==
    /\ procs # {}
    /\ file_exists' = ~file_exists
    /\ file_content' = <<>>
    /\ UNCHANGED <<pending_toggles, written, now, supvars, nkvars, objvars, cfgvars,
                   ctlvars, histvars, harnessvars, lvars, selvars>>

SupNext ==
    \/ Start
    \/ Stop
    \/ ProcessExits
    \/ ExternalSpawn
    \/ HotkeyToggle

SupSpec == SupInit /\ [][SupNext]_vars

-----------------------------------------------------------------------------
(* TrainerLauncher.run: the prerequisites, the initial start, the menu,    *)
(* the cleanup. The sessions the menu starts run as processes of their own. *)

\* Mutant of check_prerequisites: the interceptor binary is not looked at.
check_prerequisites_FilesOnly(b, f) == IF f THEN {} ELSE {"files"}

\* check_prerequisites: the issues found; none means the check passes
check_prerequisites(b, f) ==
    (IF b THEN {} ELSE {"interceptor"}) \cup (IF f THEN {} ELSE {"files"})

\* positions where the handlers of SIGINT and SIGTERM are installed and run
\* has not reached its finally clause
HandledPcs ==
    {"initialize", "menu", "restart_stop", "restart_start", "status_start", "fg_run"}

LauncherInit ==
    /\ nk_input = [prefix |-> <<>>, main |-> <<>>, style |-> "lower"]
    /\ nk_result = <<>>
    /\ nk_done = FALSE
    /\ SessionIdle
    /\ SupIdle
    /\ HarnessIdle
    /\ SelIdle
    /\ lpc = "prereq"
    /\ built \in BOOLEAN
    /\ files_ok \in BOOLEAN
    /\ lexit = -1
    /\ lops = {}
    /\ lissues = {}
    /\ fg = NoPid

\* run: check_prerequisites; on an issue the issues are displayed and
\* sys.exit(1) is called, before the try statement
CheckPrerequisites ==
    /\ lpc = "prereq"
    /\ lissues' = check_prerequisites(built, files_ok)
    /\ IF check_prerequisites(built, files_ok) = {}
       THEN lpc' = "initialize" /\ UNCHANGED lexit
       ELSE lpc' = "exited" /\ lexit' = 1
    /\ UNCHANGED <<built, files_ok, fg, lops, nkvars, envvars, objvars, cfgvars, ctlvars,
                   histvars, harnessvars, supvars, selvars>>

\* Mutant of Initialize: the result of start is not looked at.
Initialize_IgnoreFailure ==
    /\ lpc = "initialize"
    /\ StartCall
    /\ lops' = lops \cup {"start"}
    /\ lpc' = "menu"
    /\ UNCHANGED <<built, files_ok, fg, lexit, lissues>>

\* _initialize: start; on failure sys.exit(1), raised inside the try
\* statement of run, whose finally clause runs cleanup
Initialize ==
    /\ lpc = "initialize"
    /\ StartCall
    /\ lops' = lops \cup {"start"}
    /\ IF sup_ret'.success
       THEN lpc' = "menu" /\ UNCHANGED lexit
       ELSE lpc' = "cleanup" /\ lexit' = 1
    /\ UNCHANGED <<built, files_ok, fg, lissues>>

\* run_quiz, run_typing_test, run_viewer: a session runs as a subprocess
RunSession ==
    /\ lpc = "menu"
    /\ lops' = lops \cup {"session"}
    /\ UNCHANGED <<lpc, built, files_ok, fg, lexit, lissues, nkvars, envvars, objvars,
                   cfgvars, ctlvars, histvars, harnessvars, supvars, selvars>>

\* check_interceptor_status: is_running, then the answer of the user
StatusCheck ==
    /\ lpc = "menu"
    /\ \E yes \in BOOLEAN :
          lpc' = IF ~yes THEN "menu"
                 ELSE IF is_running(procs) THEN "restart_stop" ELSE "status_start"
    /\ UNCHANGED <<built, files_ok, fg, lexit, lops, lissues, nkvars, envvars, objvars,
                   cfgvars, ctlvars, histvars, harnessvars, supvars, selvars>>

\* _restart_interceptor: stop
RestartStop ==
    /\ lpc = "restart_stop"
    /\ StopCall
    /\ lops' = lops \cup {"stop"}
    /\ lpc' = "restart_start"
    /\ UNCHANGED <<built, files_ok, fg, lexit, lissues>>

\* _restart_interceptor, _start_interceptor: start; the outcome is printed
\* and the menu goes on
StatusStart ==
    /\ lpc \in {"restart_start", "status_start"}
    /\ StartCall
    /\ lops' = lops \cup {"start"}
    /\ lpc' = "menu"
    /\ UNCHANGED <<built, files_ok, fg, lexit, lissues>>

\* exit_launcher: running = False, _main_loop returns, run reaches finally
ExitLauncher ==
    /\ lpc = "menu"
    /\ lpc' = "cleanup"
    /\ lexit' = 0
    /\ UNCHANGED <<built, files_ok, fg, lops, lissues, nkvars, envvars, objvars, cfgvars,
                   ctlvars, histvars, harnessvars, supvars, selvars>>

\* Mutant of Cleanup: the process ends without a call of stop.
Cleanup_NoStop ==
    /\ lpc = "cleanup"
    /\ lpc' = "exited"
    /\ UNCHANGED <<built, files_ok, fg, lexit, lops, lissues, nkvars, envvars, objvars,
                   cfgvars, ctlvars, histvars, harnessvars, supvars, selvars>>

\* cleanup, from the finally clause of run: stop; the process then ends
Cleanup ==
    /\ lpc = "cleanup"
    /\ StopCall
    /\ lops' = lops \cup {"stop"}
    /\ lpc' = "exited"
    /\ UNCHANGED <<built, files_ok, fg, lexit, lissues>>

\* signal_handler: cleanup, then sys.exit(0). Raised inside the try
\* statement it leads to the finally clause; raised while the finally clause
\* runs cleanup it ends the process.
Signal ==
    /\ lpc \in HandledPcs \cup {"cleanup"}
    /\ StopCall
    /\ lops' = lops \cup {"stop", "signal"}
    /\ lpc' = IF lpc = "cleanup" THEN "exited" ELSE "cleanup"
    /\ lexit' = 0
    /\ UNCHANGED <<built, files_ok, fg, lissues>>

\* run_freestyle up to the call of run_foreground: the user confirms, and
\* the background interceptor is stopped
Freestyle ==
    /\ lpc = "menu"
    /\ StopCall
    /\ lops' = lops \cup {"stop", "freestyle"}
    /\ lpc' = "fg_run"
    /\ UNCHANGED <<built, files_ok, fg, lexit, lissues>>

\* run_foreground: subprocess.run spawns the interceptor in the process
\* group of the launcher and waits for it
ForegroundRun ==
    /\ lpc = "fg_run"
    /\ next_pid <= MaxPids
    /\ procs' = procs \cup {next_pid}
    /\ fg' = next_pid
    /\ next_pid' = next_pid + 1
    /\ lpc' = "foreground"
    /\ UNCHANGED <<interceptor_process, sup_ret, launched, unlink_alive, built, files_ok,
                   lexit, lops, lissues, nkvars, envvars, objvars, cfgvars, ctlvars,
                   histvars, harnessvars, selvars>>

\* The foreground interceptor has exited: subprocess.run returns, and
\* run_freestyle starts the interceptor in the background again. The menu
\* goes on whatever start returns.
ForegroundReturns ==
    /\ lpc = "foreground"
    /\ fg \notin procs
    /\ StartCall
    /\ lops' = lops \cup {"start"}
    /\ fg' = NoPid
    /\ lpc' = "menu"
    /\ UNCHANGED <<built, files_ok, lexit, lissues>>

\* Ctrl+C (or SIGTERM) while run_foreground waits. run has replaced the
\* handler of SIGINT, so no KeyboardInterrupt is raised: signal_handler runs
\* cleanup and sys.exit(0). SystemExit passes the except clauses of
\* run_foreground and run_freestyle, which name KeyboardInterrupt only;
\* subprocess.run kills the child on its way out, and run reaches finally.
FreestyleInterrupt ==
    /\ lpc = "foreground"
    /\ StopCall
    /\ fg \notin procs'
    /\ lops' = lops \cup {"stop", "signal"}
    /\ fg' = NoPid
    /\ lpc' = "cleanup"
    /\ lexit' = 0
    /\ UNCHANGED <<built, files_ok, lissues>>

\* an exception no handler of the menu catches (EOFError of input, OSError of
\* subprocess.run) leaves _main_loop: run reaches finally, and the process
\* ends with status 1 after the traceback
Unhandled ==
    /\ lpc = "menu"
    /\ lpc' = "cleanup"
    /\ lexit' = 1
    /\ UNCHANGED <<built, files_ok, fg, lops, lissues, nkvars, envvars, objvars, cfgvars,
                   ctlvars, histvars, harnessvars, supvars, selvars>>

LauncherNext ==
    \/ CheckPrerequisites
    \/ Initialize
    \/ RunSession
    \/ StatusCheck
    \/ RestartStop
    \/ StatusStart
    \/ Freestyle
    \/ ForegroundRun
    \/ ForegroundReturns
    \/ FreestyleInterrupt
    \/ Unhandled
    \/ ExitLauncher
    \/ Cleanup
    \/ Signal
    \/ ProcessExits
    \/ ExternalSpawn
    \/ HotkeyToggle

\* cleanup does not wait for the user: once reached it runs
LauncherSpec == LauncherInit /\ [][LauncherNext]_vars /\ WF_vars(Cleanup)

-----------------------------------------------------------------------------
(* select_practice_mode: what the chosen option resolves to                *)

\* shortcuts of the largest collection
MaxTotal == 11

\* length of the longest shortcut_indices list
MaxIndices == 2

\* size of the random selection
SampleSize == 10

\* the shortcut at the 0-based position i of the collection, as an id
ShortcutId(i) == 100 + i

\* a collection of n shortcuts
Collection(n) == [p \in 1..n |-> ShortcutId(p - 1)]

\* Mutant of num_random: the whole collection is drawn.
num_random_All(n) == n

\* num_random = min(10, len(self.shortcuts))
num_random(n) == IF SampleSize < n THEN SampleSize ELSE n

\* self.shortcuts[i] is defined: Python takes a negative i from the end
ValidIndex(coll, i) == -Len(coll) <= i /\ i < Len(coll)

\* self.shortcuts[i]
Item(coll, i) == IF i >= 0 THEN coll[i + 1] ELSE coll[Len(coll) + i + 1]

\* the truth value of shortcut_indices: None and the empty list are false
Truthy(indices) == indices.present /\ indices.list # <<>>

\* Mutant of get_set_count: the size of the collection is shown.
get_set_count_Total(coll, indices) == Len(coll)

\* _get_set_count
get_set_count(coll, indices) ==
    IF Truthy(indices) THEN Len(indices.list) ELSE Len(coll)

\* does _get_set_shortcuts raise IndexError
get_set_raises(coll, indices) ==
    Truthy(indices) /\ \E k \in 1..Len(indices.list) : ~ValidIndex(coll, indices.list[k])

\* _get_set_shortcuts, when it does not raise
get_set_shortcuts(coll, indices) ==
    IF Truthy(indices)
    THEN [k \in 1..Len(indices.list) |-> Item(coll, indices.list[k])]
    ELSE coll

\* index values of the practice sets explored: positions, a negative index
\* and an index behind the collection
IndexValues == {-1, 0, 1, 2, MaxTotal}

RECURSIVE IndexLists(_)
IndexLists(n) ==
    IF n = 0 THEN {<<>>}
    ELSE IndexLists(n - 1)
         \cup {Append(l, v) : l \in {m \in IndexLists(n - 1) : Len(m) = n - 1},
                              v \in IndexValues}

SetIndices == {NoIndices} \cup {[present |-> TRUE, list |-> l] : l \in IndexLists(MaxIndices)}

\* the draws of random.sample explored, out of a pool of n items: the first,
\* the middle and the last item
Draws(n) == {0, n \div 2, n - 1}

SelInit ==
    /\ nk_input = [prefix |-> <<>>, main |-> <<>>, style |-> "lower"]
    /\ nk_result = <<>>
    /\ nk_done = FALSE
    /\ SessionIdle
    /\ SupIdle
    /\ HarnessIdle
    /\ LauncherIdle
    /\ \E n \in 0..MaxTotal : sel_shortcuts = Collection(n)
    /\ sel_mode = "none"
    /\ sel_indices = NoIndices
    /\ sel_pool = <<>>
    /\ sel_num = 0
    /\ sel_result = <<>>
    /\ sel_count = 0
    /\ sel_exc = "none"
    /\ sel_pc = "choose"

\* the user chooses a practice set: _build_practice_options shows its count,
\* _process_mode_choice resolves it
ChooseSet ==
    /\ sel_pc = "choose"
    /\ \E indices \in SetIndices :
          /\ sel_indices' = indices
          /\ sel_count' = get_set_count(sel_shortcuts, indices)
          /\ IF get_set_raises(sel_shortcuts, indices)
             THEN sel_exc' = "IndexError" /\ UNCHANGED sel_result
             ELSE /\ sel_result' = get_set_shortcuts(sel_shortcuts, indices)
                  /\ UNCHANGED sel_exc
    /\ sel_mode' = "set"
    /\ sel_pc' = "done"
    /\ UNCHANGED <<sel_shortcuts, sel_pool, sel_num, nkvars, envvars, objvars, cfgvars,
                   ctlvars, histvars, harnessvars, supvars, lvars>>

\* the user chooses the random selection: num_random, and the entry of
\* random.sample(self.shortcuts, num_random)
ChooseRandom ==
    /\ sel_pc = "choose"
    /\ sel_mode' = "random"
    /\ sel_num' = num_random(Len(sel_shortcuts))
    /\ sel_pool' = sel_shortcuts
    /\ sel_pc' = "sampling"
    /\ UNCHANGED <<sel_shortcuts, sel_indices, sel_result, sel_count, sel_exc, nkvars,
                   envvars, objvars, cfgvars, ctlvars, histvars, harnessvars, supvars, lvars>>

\* random.sample: one item is drawn from the pool, and the last item of the
\* pool takes its place
SampleDraw ==
    /\ sel_pc = "sampling"
    /\ Len(sel_result) < sel_num
    /\ \E j \in Draws(Len(sel_pool)) :
          /\ sel_result' = Append(sel_result, sel_pool[j + 1])
          /\ sel_pool' = SubSeq([sel_pool EXCEPT ![j + 1] = sel_pool[Len(sel_pool)]],
                                1, Len(sel_pool) - 1)
    /\ UNCHANGED <<sel_shortcuts, sel_mode, sel_indices, sel_num, sel_count, sel_exc,
                   sel_pc, nkvars, envvars, objvars, cfgvars, ctlvars, histvars, harnessvars,
                   supvars,
                   lvars>>

\* random.sample returns
SampleReturn ==
    /\ sel_pc = "sampling"
    /\ Len(sel_result) = sel_num
    /\ sel_pc' = "done"
    /\ UNCHANGED <<sel_shortcuts, sel_mode, sel_indices, sel_pool, sel_num, sel_result,
                   sel_count, sel_exc, nkvars, envvars, objvars, cfgvars, ctlvars,
                   histvars, harnessvars, supvars, lvars>>

SelNext ==
    \/ ChooseSet
    \/ ChooseRandom
    \/ SampleDraw
    \/ SampleReturn

SelSpec == SelInit /\ [][SelNext]_vars

-----------------------------------------------------------------------------
(* _handle_mistake: the feedback on a mismatching token                     *)

W_space  == <<"s", "p", "a", "c", "e">>
W_return == <<"r", "e", "t", "u", "r", "n">>
W_delete == <<"d", "e", "l", "e", "t", "e">>
W_f5     == <<"f", "5">>
K_ctrl_s == <<"c", "t", "r", "l", "+", "s">>
K_alt_s  == <<"a", "l", "t", "+", "s">>
K_cmd_shift_s == <<"c", "m", "d", "+", "s", "h", "i", "f", "t", "+", "s">>

\* attempts made on one shortcut in the harness
MaxMistakes == 4

\* meaningful_keys of _is_meaningful_attempt
MeaningfulKeys == {W_space, W_return, W_delete, W_tab}

\* _is_meaningful_attempt
is_meaningful_attempt(key) ==
    \/ "+" \in Range(key)
    \/ lower(key) \in MeaningfulKeys
    \/ (key # <<>> /\ Head(lower(key)) = "f")

\* the keys of the dict hints of _provide_hint, in the order of the dict
HintOrder == <<W_cmd, W_alt, W_shift, W_ctrl, W_fn>>

\* the hint on Ctrl typed where Cmd is expected
H_cmd_not_ctrl == <<"c", "m", "d", "!", "c", "t", "r", "l">>

\* Mutant of missing_hint: no break, a hint for every missing modifier.
missing_hint_All(missing) == SelectSeq(HintOrder, LAMBDA m : m \in missing)

\* the loop over hints with its break: the first modifier of the dict that is
\* missing, if there is one
missing_hint(missing) ==
    LET all == SelectSeq(HintOrder, LAMBDA m : m \in missing)
    IN  IF all = <<>> THEN <<>> ELSE <<Head(all)>>

\* _provide_hint: the hints printed, in order
provide_hint(expected, actual) ==
    LET expected_parts == Range(split(expected, "+"))
        actual_parts   == Range(split(actual, "+"))
        missing        == expected_parts \ actual_parts
        extra          == actual_parts \ expected_parts
    IN  missing_hint(missing)
            \o (IF W_ctrl \in extra /\ W_cmd \in expected_parts
                THEN <<H_cmd_not_ctrl>> ELSE <<>>)

\* _handle_mistake: whether "Try again" is printed, and the hints
handle_mistake(key, expected, difficulty, n) ==
    IF is_meaningful_attempt(key)
    THEN [try_again |-> TRUE,
          hints |-> IF difficulty <= 2 /\ n > 2
                    THEN provide_hint(expected, normalize_keys(key))
                    ELSE <<>>]
    ELSE [try_again |-> FALSE, hints |-> <<>>]

\* tokens that reach the comparison, and expected shortcuts
MistakeKeys == {K_cmd_k, K_ctrl_s, K_alt_s, <<"s">>, <<"f">>, W_f5, W_tab, <<"S", "p", "a", "c", "e">>,
                W_shift}

MistakeTargets == {K_cmd_s, K_cmd_shift_s, <<"s">>}

MistakeInit ==
    /\ hm_key \in MistakeKeys
    /\ hm_expected \in {normalize_keys(t) : t \in MistakeTargets}
    /\ normalize_keys(hm_key) # hm_expected
    /\ hm_difficulty \in Difficulties
    /\ hm_attempts \in 1..MaxMistakes
    /\ hm_out = [try_again |-> FALSE, hints |-> <<>>]
    /\ hm_done = FALSE
    /\ pending_line = <<>>
    /\ chan_expected = <<>>
    /\ chan_got = <<>>
    /\ chan_partial = FALSE
    /\ nk_input = [prefix |-> <<>>, main |-> <<>>, style |-> "lower"]
    /\ nk_result = <<>>
    /\ nk_done = FALSE
    /\ SessionIdle
    /\ SupIdle
    /\ LauncherIdle
    /\ SelIdle

\* the else branch of the comparison in _practice_loop: one call of
\* _handle_mistake
HandleMistake ==
    /\ ~hm_done
    /\ hm_out' = handle_mistake(hm_key, hm_expected, hm_difficulty, hm_attempts)
    /\ hm_done' = TRUE
    /\ UNCHANGED <<hm_key, hm_expected, hm_difficulty, hm_attempts, chanvars, nkvars,
                   envvars, objvars, cfgvars, ctlvars, histvars, supvars, lvars, selvars>>

MistakeNext == HandleMistake

MistakeSpec == MistakeInit /\ [][MistakeNext]_vars

-----------------------------------------------------------------------------
(* The capture channel read by a long-running loop: KeyViewer.watch         *)

\* keys typed while the viewer watches
ChanKeys == {K_cmd_s, <<"a">>, W_esc}

\* exit_keys of KeyViewer
ViewerExitKeys == {W_escape, W_esc, K_ctrl_c}

\* setup has returned: clear_capture_file has set the cursor, and capturing is
\* off when the automatic toggle failed and the user went on
ChanInit ==
    /\ nk_input = [prefix |-> <<>>, main |-> <<>>, style |-> "lower"]
    /\ nk_result = <<>>
    /\ nk_done = FALSE
    /\ SessionIdle
    /\ SupIdle
    /\ HarnessIdle
    /\ LauncherIdle
    /\ SelIdle

\* The user presses the toggle hotkey: the interceptor removes the capture
\* file, or creates it anew and empty.
ChanToggle ==
    /\ pc = "harness"
    /\ file_exists' = ~file_exists
    /\ file_content' = <<>>
    /\ pending_line' = <<>>
    /\ chan_expected' = <<>>
    /\ chan_got' = <<>>
    /\ chan_partial' = FALSE
    /\ read_status' = "none"
    /\ UNCHANGED <<pending_toggles, written, now, objvars, cfgvars, ctlvars, off_calls,
                   raise_info, sentinel_log, ended_by, typed, fresh_from, read_from,
                   returned, prompted, first_try, stats_before, cursor_from, dropped_to,
                   outcomes, shown, mvars, nkvars, supvars, lvars, selvars>>

\* the interceptor appends one key as a line, in one write
ChanWrite ==
    /\ pc = "harness"
    /\ file_exists
    /\ pending_line = <<>>
    /\ written < MaxKeys
    /\ \E k \in ChanKeys :
          /\ file_content' = file_content \o k \o <<"\n">>
          /\ chan_expected' = Append(chan_expected, k)
    /\ written' = written + 1
    /\ read_status' = "none"
    /\ UNCHANGED <<file_exists, pending_toggles, now, objvars, cfgvars, ctlvars, off_calls,
                   raise_info, sentinel_log, ended_by, typed, fresh_from, read_from,
                   returned, prompted, first_try, stats_before, cursor_from, dropped_to,
                   outcomes, shown, pending_line, chan_got, chan_partial, mvars, nkvars,
                   supvars, lvars, selvars>>

\* the interceptor appends a line of which only the first characters have
\* reached the file so far
ChanWritePart ==
    /\ pc = "harness"
    /\ file_exists
    /\ pending_line = <<>>
    /\ written < MaxKeys
    /\ \E k \in ChanKeys : \E n \in 1..(Len(k) - 1) :
          /\ file_content' = file_content \o SubSeq(k, 1, n)
          /\ pending_line' = SubSeq(k, n + 1, Len(k))
          /\ chan_expected' = Append(chan_expected, k)
    /\ chan_partial' = TRUE
    /\ written' = written + 1
    /\ read_status' = "none"
    /\ UNCHANGED <<file_exists, pending_toggles, now, objvars, cfgvars, ctlvars, off_calls,
                   raise_info, sentinel_log, ended_by, typed, fresh_from, read_from,
                   returned, prompted, first_try, stats_before, cursor_from, dropped_to,
                   outcomes, shown, chan_got, mvars, nkvars, supvars, lvars, selvars>>

\* the rest of the line and its newline reach the file
ChanWriteRest ==
    /\ pc = "harness"
    /\ file_exists
    /\ pending_line # <<>>
    /\ file_content' = file_content \o pending_line \o <<"\n">>
    /\ pending_line' = <<>>
    /\ read_status' = "none"
    /\ UNCHANGED <<file_exists, pending_toggles, written, now, objvars, cfgvars, ctlvars,
                   off_calls, raise_info, sentinel_log, ended_by, typed, fresh_from,
                   read_from, returned, prompted, first_try, stats_before, cursor_from,
                   dropped_to, outcomes, shown, chan_expected, chan_got, chan_partial,
                   mvars, nkvars, supvars, lvars, selvars>>

\* a cursor reset: clear_capture_file. A line the interceptor is in the
\* middle of stays split by the cursor.
ChanClear ==
    /\ pc = "harness"
    /\ last_position' = clear_capture_file(file_exists, Len(file_content), TRUE)
    /\ chan_expected' = <<>>
    /\ chan_got' = <<>>
    /\ chan_partial' = (pending_line # <<>>)
    /\ read_status' = "none"
    /\ UNCHANGED <<envvars, stats, cfgvars, ctlvars, off_calls, raise_info, sentinel_log,
                   ended_by, typed, fresh_from, read_from, returned, prompted, first_try,
                   stats_before, cursor_from, dropped_to, outcomes, shown, pending_line,
                   mvars, nkvars, supvars, lvars, selvars>>

\* one iteration of the loop of watch: read_new_keys, then every key up to
\* the first exit key is printed, and an exit key ends the loop
ChanRead ==
    /\ pc = "harness"
    /\ \E read_ok \in BOOLEAN :
          LET r == read_new_keys(file_exists, file_content, last_position, read_ok)
          IN  /\ last_position' = r.pos
              /\ batch' = r.keys
              /\ chan_got' = chan_got \o r.keys
              /\ read_status' = ReadStatus(file_exists, read_ok)
              /\ pc' = IF \E i \in DOMAIN r.keys : check_for_exit(r.keys[i], ViewerExitKeys)
                       THEN "watch_done" ELSE "harness"
    /\ UNCHANGED <<envvars, stats, cfgvars, polls, last_ok, idx, attempts,
                   consecutive_backticks, last_backtick_time, result, exc, exit_code,
                   off_calls, raise_info, sentinel_log, ended_by, typed, fresh_from,
                   read_from, returned, prompted, first_try, stats_before, cursor_from,
                   dropped_to, outcomes, shown, pending_line, chan_expected, chan_partial,
                   mvars, nkvars, supvars, lvars, selvars>>

ChanNext ==
    \/ ChanToggle
    \/ ChanWrite
    \/ ChanWritePart
    \/ ChanWriteRest
    \/ ChanClear
    \/ ChanRead

ChanSpec == ChanInit /\ [][ChanNext]_vars

-----------------------------------------------------------------------------
(* One practice loop, with a user who may press the toggle hotkey while it  *)
(* waits                                                                    *)

\* toggles sent and not yet applied while the loop waits
MaxPending == 2

\* positions of _practice_loop
LoopPcs == {"loop", "classify"}

\* a session of one shortcut, entered with capturing off
LoopInit ==
    /\ Init
    /\ ~file_exists
    /\ shortcuts = <<Shortcut(K_cmd_s, "basic", 1)>>

\* While the loop waits for a key the user presses the toggle hotkey, which
\* the interceptor handles as it does the toggle the program sends.
UserHotkey ==
    /\ pc = "loop"
    /\ pending_toggles < MaxPending
    /\ pending_toggles' = pending_toggles + 1
    /\ UNCHANGED <<file_exists, file_content, written, now, offvars, cfgvars, objvars,
                   ctlvars, histvars>>

\* the session up to the return of the practice loop, without interrupt: the
\* interceptor applies toggles and writes keys while the prompt is about to be
\* shown and while the loop waits
LoopNext ==
    \/ (ApplyToggle /\ pc \in {"on_poll", "loop"})
    \/ (WriteKey /\ pc \in {"prompt", "loop"})
    \/ UserHotkey
    \/ EnsureOffCheck
    \/ PressEnter
    \/ EnsureOnCheck
    \/ EnsureOnPoll
    \/ Prompt
    \/ Poll
    \/ ClassifyKey

\* the loop of _practice_loop has no exit but its returns: it goes on
\* polling, every 50 ms, and classifies every key of a batch it has read
LoopSpec ==
    /\ LoopInit
    /\ [][LoopNext]_vars
    /\ WF_vars(Poll)
    /\ WF_vars(ClassifyKey)

-----------------------------------------------------------------------------
(* Properties                                                              *)

\* gap between the last two backticks classified in this session
BacktickGap == sentinel_log[2] - sentinel_log[1]

\* C1: whenever run_quiz has been left, by returning or by an exception raised
\* after capturing was activated, capturing is inactive (the capture file does
\* not exist).
C1_CapturingOffAfterSession ==
    (pc = "returned" \/ (pc = "raised" /\ raise_info.active)) => ~file_exists

\* C2: when a KeyboardInterrupt raised during the active session has been
\* handled at the top level and the process has ended, ensure_trainer_off was
\* invoked after the interrupt.
C2_InterruptInvokesEnsureOff ==
    (pc = "exited" /\ exc = "KeyboardInterrupt" /\ raise_info.active)
        => off_calls > raise_info.off_calls

\* C3: when an unhandled error raised during the active session has been
\* handled at the top level and the process has ended, ensure_trainer_off was
\* invoked after the error and the exit code is not zero.
C3_ErrorInvokesEnsureOff ==
    (pc = "exited" /\ exc \notin {"none", "KeyboardInterrupt"} /\ raise_info.active)
        => (off_calls > raise_info.off_calls /\ exit_code # 0)

\* the keys of the batch being classified were appended after the prompt
FreshRead == read_from >= fresh_from

\* C4: a backtick typed after the prompt and classified within one second of
\* the previous backtick of the session yields exit: it never yields skipped.
C4_DoubleBacktickExits ==
    (pc = "stats" /\ ended_by = "sentinel" /\ FreshRead /\ sentinel_log[1] # 0
        /\ BacktickGap <= BacktickWindow)
        => result = "exit"

\* C5: a backtick that is the first of the session, or comes more than one
\* second after the previous one, yields skipped and never exit; after the
\* second of two backticks more than one second apart is accounted for, two
\* shortcuts have been counted as skipped.
C5_SeparateBackticksSkip ==
    (pc \in {"stats", "prompt", "post_off"} /\ ended_by = "sentinel"
        /\ (sentinel_log[1] = 0 \/ BacktickGap > BacktickWindow))
        => /\ result = "skipped"
           /\ (sentinel_log[1] # 0 =>
                 stats.skipped >= (IF pc = "stats" THEN 1 ELSE 2))

\* C5 witness: two backticks more than a second apart, both skipped
C5_Witness ==
    /\ pc \in {"prompt", "post_off"}
    /\ ended_by = "sentinel"
    /\ sentinel_log[1] # 0
    /\ BacktickGap > BacktickWindow
    /\ result = "skipped"
    /\ stats.skipped = 2

\* the steps of a shortcut: its keys split on the space
ChordSteps(shortcut) == split(shortcut.keys, " ")

\* C6: a chord shortcut is completed only when the last tokens typed for it
\* (after its prompt) are its steps, in order, after normalisation: as many
\* tokens as steps.
C6_ChordNeedsAllSteps ==
    (pc = "stats" /\ result = "completed" /\ FreshRead
        /\ Len(ChordSteps(shortcuts[idx])) > 1)
        => LET steps == ChordSteps(shortcuts[idx])
               n == Len(steps)
           IN  /\ Len(typed) >= n
               /\ \A i \in 1..n :
                     normalize_keys(typed[Len(typed) - n + i]) = normalize_keys(steps[i])

\* the modifiers of the vocabulary in lexicographic order
SortedVocabulary == <<W_alt, W_cmd, W_ctrl, W_fn, W_shift>>

\* the modifiers of set S, sorted, then the main key, joined by "+"
Canonical(S, main) ==
    join(SelectSeq(SortedVocabulary, LAMBDA m : m \in S) \o <<main>>, "+")

\* C7: for every ordering of every set of modifiers and every main key,
\* normalize_keys gives the modifiers sorted lexicographically, joined by "+",
\* followed by the main key: the result does not depend on the order.
C7_ModifierOrderIrrelevant ==
    (nk_done /\ nk_input.prefix \in ModOrderings)
        => nk_result = Canonical(Range(nk_input.prefix), nk_input.main)

\* C7 witness: normalize("shift+cmd+n") = "cmd+shift+n"
C7_Witness ==
    /\ nk_done
    /\ nk_input = [prefix |-> <<W_shift, W_cmd>>, main |-> <<"n">>, style |-> "lower"]
    /\ nk_result = <<"c", "m", "d", "+", "s", "h", "i", "f", "t", "+", "n">>

\* C8: normalize_keys of a token equals normalize_keys of the same token
\* written in lower case, whatever letters of it are in upper case.
C8_CaseInsensitive ==
    nk_done => nk_result = normalize_keys(BaseToken(nk_input))

\* C8 witness: normalize("A") = normalize("a") = "a"
C8_Witness ==
    /\ nk_done
    /\ nk_input = [prefix |-> <<>>, main |-> <<"a">>, style |-> "upper"]
    /\ Token(nk_input) = <<"A">>
    /\ nk_result = <<"a">>

\* n copies of word w
RECURSIVE Copies(_, _)
Copies(w, n) == IF n = 0 THEN <<>> ELSE <<w>> \o Copies(w, n - 1)

Occurrences(w, segs) == Cardinality({i \in DOMAIN segs : segs[i] = w})

\* the prefix segments of the vocabulary, each as often as it occurs, in
\* lexicographic order
RECURSIVE KeptSorted(_, _)
KeptSorted(vocab, segs) ==
    IF vocab = <<>> THEN <<>>
    ELSE Copies(Head(vocab), Occurrences(Head(vocab), segs)) \o KeptSorted(Tail(vocab), segs)

\* C9: the last segment is the main key, the earlier segments of the
\* vocabulary are kept and every other earlier segment is dropped, so a token
\* with an unrecognised prefix segment normalizes like the token without it.
C9_UnknownPrefixDropped ==
    nk_done =>
        nk_result = join(KeptSorted(SortedVocabulary, nk_input.prefix) \o <<nk_input.main>>, "+")

\* C9 witness: normalize("foo+cmd+n") = "cmd+n"
C9_Witness ==
    /\ nk_done
    /\ nk_input = [prefix |-> <<W_foo, W_cmd>>, main |-> <<"n">>, style |-> "lower"]
    /\ nk_result = <<"c", "m", "d", "+", "n">>

\* C10: every key the practice loop classifies for a shortcut was read from
\* bytes appended after the clear_capture_file call of that shortcut's prompt.
C10_NoStaleKeys ==
    pc = "classify" => read_from >= fresh_from

\* the token lines of the capture file between two offsets
LinesBetween(from, to) == NonEmptyLines(SubSeq(file_content, from + 1, to))

C12_MissingFileReadsEmpty ==
    [][read_status' \in {"missing", "error"}
          => /\ batch' = <<>>
             /\ last_position' = last_position
             /\ pc' = "loop"
             /\ exc' = "none"]_vars

\* C12 witness: a read found the file missing while the cursor was not 0
C12_Witness ==
    /\ pc = "loop"
    /\ read_status = "missing"
    /\ ~file_exists
    /\ last_position > 0
    /\ batch = <<>>

\* a step of the interceptor: it applies a toggle hotkey (creating or removing
\* the capture file) or appends bytes to the file; the program does not move
InterceptorStep ==
    /\ <<objvars, ctlvars>>' = <<objvars, ctlvars>>
    /\ \/ pending_toggles' = pending_toggles - 1
       \/ /\ written' = written + 1
          /\ file_exists' = file_exists
          /\ Len(file_content') > Len(file_content)
          /\ SubSeq(file_content', 1, Len(file_content)) = file_content

\* C13: no step of the session (ensure_trainer_off, ensure_trainer_on,
\* clear_capture_file, read_new_keys, the practice loop, the handlers)
\* creates, removes, truncates or rewrites the capture file: the file changes
\* only by steps of the interceptor; and clear_capture_file and read_new_keys
\* change nothing of the object but last_position.
C13_EngineNeverTouchesFile ==
    [][/\ (file_exists' # file_exists \/ file_content' # file_content) => InterceptorStep
       /\ (pc \in {"prompt", "loop"} /\ last_position' # last_position)
             => (stats' = stats /\ envvars' = envvars)]_vars

\* C13 witness: the second prompt and a read have acted on a file holding the
\* line of the first shortcut, and the file holds every line written
C13_Witness ==
    /\ pc = "classify"
    /\ Len(prompted) = 2
    /\ file_exists
    /\ cursor_from = Len(K_cmd_s) + 1
    /\ last_position = Len(file_content)
    /\ file_content = K_cmd_s \o <<"\n">> \o K_cmd_k \o <<"\n">>

\* the polling loops of ensure_trainer_off and ensure_trainer_on
PollPcs == {"pre_off_poll", "on_poll", "post_off_poll"}

\* the state the handshake at position p waits for
Observed(p) == file_exists = (p = "on_poll")

\* C14: the polling loops of ensure_trainer_on and ensure_trainer_off make at
\* most max_attempts polls; a poll that observes the requested state returns
\* true at once, a poll that does not counts one attempt, and the attempt that
\* exhausts the budget returns false; and every polling loop is left,
\* whatever the interceptor does.
C14_BoundedRetry ==
    /\ [](polls <= MaxAttempts /\ (pc \in PollPcs => polls < MaxAttempts))
    /\ [][(pc \in PollPcs /\ (pc' # pc \/ polls' # polls))
            => IF Observed(pc)
               THEN last_ok' /\ pc' # pc /\ polls' = polls
               ELSE /\ polls' = polls + 1
                    /\ (polls' < MaxAttempts => pc' = pc)
                    /\ (polls' = MaxAttempts => (pc' # pc /\ ~last_ok'))]_vars
    /\ \A p \in PollPcs : (pc = p) ~> (pc # p)

\* C14 witness: ensure_trainer_on has used its ten polls and returned false
C14_Witness ==
    /\ pc = "manual"
    /\ polls = MaxAttempts
    /\ ~last_ok
    /\ ~file_exists

\* C15: when a handshake of run_quiz (the initial ensure_trainer_off, the
\* ensure_trainer_on, the final ensure_trainer_off) exhausts its polls, no
\* exception is raised and the session goes to a manual confirmation prompt.
C15_ExhaustedHandshakeAsksUser ==
    [][(pc \in PollPcs /\ pc' # pc /\ polls' = MaxAttempts)
          => (exc' = "none" /\ pc' = "manual")]_vars

\* C16: the shortcuts are prompted in the order of the selection, each
\* position once and none beyond the selection; after a result of exit the
\* session goes to ensure_trainer_off and no further shortcut is prompted;
\* after completed or skipped the next shortcut of the selection is prompted,
\* or the session goes to ensure_trainer_off when there is none.
C16_PromptsInOrderUntilExit ==
    /\ [](/\ prompted = [i \in 1..Len(prompted) |-> i]
           /\ Len(prompted) <= Len(shortcuts))
    /\ [][prompted' # prompted
             => (result # "exit" /\ prompted' = Append(prompted, Len(prompted) + 1))]_vars
    /\ [][(pc = "stats" /\ pc' \notin {"stats", "raised"})
             => IF result = "exit" THEN pc' = "post_off" /\ idx' = idx
                ELSE IF idx < Len(shortcuts) THEN pc' = "prompt" /\ idx' = idx + 1
                ELSE pc' = "post_off"]_vars

\* C16 witness: the first of two shortcuts yielded exit, and the session is at
\* the final ensure_trainer_off with the second shortcut never prompted
C16_Witness ==
    /\ pc = "post_off"
    /\ result = "exit"
    /\ Len(shortcuts) = 2
    /\ prompted = <<1>>

\* the selection has at least one shortcut and all are of one configured
\* category
OneCategory ==
    /\ shortcuts # <<>>
    /\ shortcuts[1].category \in Categories
    /\ \A i \in DOMAIN shortcuts : shortcuts[i].category = shortcuts[1].category

\* C17: when the loop over n shortcuts of one configured category c has ended
\* with every token classified in the session a match (each shortcut typed
\* correctly on its first token), completed = n, attempts is n times 1 and
\* by_category[c] = n, and nothing was skipped.
C17_AllFirstTryStatistics ==
    (pc \in {"post_off", "post_off_poll", "results", "returned"}
        /\ OneCategory /\ first_try /\ idx = Len(shortcuts) + 1)
        => LET n == Len(shortcuts)
           IN  /\ stats.completed = n
               /\ stats.attempts = [i \in 1..n |-> 1]
               /\ stats.by_category[shortcuts[1].category] = n
               /\ stats.skipped = 0

\* C17 witness: the three shortcuts of category "basic", each typed correctly
\* on the first token
C17_Witness ==
    /\ pc = "returned"
    /\ first_try
    /\ Len(shortcuts) = 3
    /\ OneCategory
    /\ stats.completed = 3
    /\ stats.attempts = <<1, 1, 1>>
    /\ stats.by_category["basic"] = 3

\* positions of run_quiz after _update_stats has accounted for a result
AccountedPcs == {"prompt", "post_off", "post_off_poll", "results", "returned"}

\* C18: when a shortcut has ended by a sentinel or an emergency token, its
\* result is skipped or exit and the practice loop has left the statistics as
\* they were at the prompt, mismatching tokens before it or not; once
\* _update_stats has accounted for the result, skipped is one more for a
\* result of skipped, and every other statistic, and for a result of exit
\* every statistic, is as it was at the prompt.
C18_SkipAndExitStatistics ==
    (ended_by \in {"sentinel", "emergency"} /\ pc \in {"stats"} \cup AccountedPcs)
        => /\ result \in {"skipped", "exit"}
           /\ stats = IF pc \in AccountedPcs /\ result = "skipped"
                      THEN [stats_before EXCEPT !.skipped = @ + 1]
                      ELSE stats_before

\* C18 witness: an exit after a mismatching token, accounted for, with the
\* statistics as they were when the shortcut was prompted
C18_Witness ==
    /\ pc = "post_off"
    /\ ended_by = "emergency"
    /\ result = "exit"
    /\ typed = <<K_cmd_s>>
    /\ stats = stats_before
    /\ stats.completed = 1

\* C19: when the practice loop classifies a token that is not the sentinel
\* and whose normal form is ctrl+c, cmd+q or cmd+., the loop returns exit at
\* once, whatever the expected shortcut: the token is not counted as an
\* attempt and the statistics are unchanged.
C19_EmergencyExitsAtOnce ==
    [][(/\ pc = "classify"
        /\ (pc' # pc \/ batch' # batch)
        /\ pc' # "raised"
        /\ lower(Head(batch)) \notin SKIP_EXIT_KEYS
        /\ normalize_keys(Head(batch)) \in {K_ctrl_c, K_cmd_q, K_cmd_dot})
          => /\ pc' = "stats"
             /\ result' = "exit"
             /\ ended_by' = "emergency"
             /\ typed' = typed
             /\ stats' = stats]_vars

\* C19 witness: Ctrl+C typed for the shortcut whose expected keys are ctrl+c
\* yields exit, not completed, and no attempt is counted
C19_Witness ==
    /\ pc = "stats"
    /\ ended_by = "emergency"
    /\ result = "exit"
    /\ idx = 2
    /\ shortcuts[idx].keys = K_ctrl_c
    /\ typed = <<>>
    /\ returned = <<K_Ctrl_C>>

C21_NoInterceptorAtUnlink == unlink_alive = {}

\* C22: a start call that launched a process returns (False, None) exactly
\* when that process is no longer running at the check after the wait. When
\* the start call of _initialize fails, the launcher goes to its cleanup with
\* exit status 1 and ends with it (unless a signal is handled during the
\* cleanup). When the start call of the status-check action fails, the
\* launcher is back in its menu, with no exit status set.
C22_FailedStartByCaller ==
    /\ [][launched' # launched
            => sup_ret' = IF interceptor_process' \in procs'
                          THEN StartRet(TRUE, interceptor_process', TRUE)
                          ELSE StartRet(FALSE, NoPid, TRUE)]_vars
    /\ [][(lpc = "initialize" /\ "signal" \notin lops' /\ lpc' # lpc
           /\ ~sup_ret'.success)
            => (lpc' = "cleanup" /\ lexit' = 1)]_vars
    /\ [][(lpc = "cleanup" /\ lexit = 1 /\ "signal" \notin lops')
            => (lexit' = 1 /\ lpc' \in {"cleanup", "exited"})]_vars
    /\ ((lpc = "cleanup" /\ lexit = 1) ~> (lpc = "exited"))
    /\ [][(lpc \in {"restart_start", "status_start"} /\ "signal" \notin lops'
           /\ lpc' # lpc /\ ~sup_ret'.success)
            => (lpc' = "menu" /\ lexit' = -1)]_vars

\* C22 witness: the initial start succeeded, that process ended, and the
\* start of the status-check action launched a second one that had exited at
\* the check: the launcher is in its menu
C22_Witness ==
    /\ lpc = "menu"
    /\ sup_ret = StartRet(FALSE, NoPid, TRUE)
    /\ launched = {1, 2}
    /\ interceptor_process = 2
    /\ procs = {}
    /\ lexit = -1

\* C23: with the interceptor binary missing, run displays the issue and exits
\* with status 1 from the prerequisite check: no start or stop call is made,
\* no process is launched and no session is started.
C23_MissingBinaryStopsBeforeStart ==
    ~built =>
        /\ lpc \in {"prereq", "exited"}
        /\ lops = {}
        /\ launched = {}
        /\ interceptor_process = NoPid
        /\ sup_ret = NoRet
        /\ unlink_alive = {}
        /\ lpc = "exited" => (lexit = 1 /\ "interceptor" \in lissues)

\* C23 witness: the binary is missing, the launcher has exited with status 1,
\* and an interceptor somebody else started is still running and capturing
C23_Witness ==
    /\ ~built
    /\ files_ok
    /\ lpc = "exited"
    /\ lexit = 1
    /\ procs = {1}
    /\ file_exists

\* C24: the random selection over a collection of N shortcuts holds exactly
\* min(10, N) shortcuts, taken from pairwise different positions of the
\* collection, for every N from 0 on.
C24_RandomSelectionSize ==
    (sel_mode = "random" /\ sel_pc = "done") =>
        /\ Len(sel_result) = (IF Len(sel_shortcuts) < 10 THEN Len(sel_shortcuts) ELSE 10)
        /\ \A k \in 1..Len(sel_result) :
              \E p \in 1..Len(sel_shortcuts) : sel_result[k] = sel_shortcuts[p]
        /\ \A k, l \in 1..Len(sel_result) : sel_result[k] = sel_result[l] => k = l

\* C24 witness: ten shortcuts drawn out of eleven, not in the order of the
\* collection
C24_Witness ==
    /\ sel_mode = "random"
    /\ sel_pc = "done"
    /\ Len(sel_shortcuts) = 11
    /\ Len(sel_result) = 10
    /\ sel_result[1] = ShortcutId(10)
    /\ sel_result[2] = ShortcutId(0)

\* every index of the list is a position of the collection
AllPositions(coll, list) ==
    \A k \in 1..Len(list) : 0 <= list[k] /\ list[k] < Len(coll)

\* C25 as stated: a practice set with an explicit list of positions resolves
\* to the shortcuts at those positions, in that order; a set without indices
\* resolves to the whole collection; the count shown is the size of the
\* resolved list.
C25_ExplicitIndicesAsStated ==
    (sel_mode = "set" /\ sel_pc = "done"
     /\ AllPositions(sel_shortcuts, sel_indices.list)) =>
        /\ sel_exc = "none"
        /\ sel_result = IF sel_indices.present
                        THEN [k \in 1..Len(sel_indices.list)
                                |-> sel_shortcuts[sel_indices.list[k] + 1]]
                        ELSE sel_shortcuts
        /\ sel_count = Len(sel_result)

\* C25, amended: a practice set with a non-empty list of positions resolves
\* to the shortcuts at those positions, in that order; a set whose indices
\* are absent or an empty list resolves to the whole collection; in both
\* cases the count shown is the size of the resolved list.
C25_SetResolution ==
    (sel_mode = "set" /\ sel_pc = "done"
     /\ AllPositions(sel_shortcuts, sel_indices.list)) =>
        /\ sel_exc = "none"
        /\ sel_result = IF sel_indices.present /\ sel_indices.list # <<>>
                        THEN [k \in 1..Len(sel_indices.list)
                                |-> sel_shortcuts[sel_indices.list[k] + 1]]
                        ELSE sel_shortcuts
        /\ sel_count = Len(sel_result)

\* C25 witness: the explicit list [2, 0] over three shortcuts resolves to the
\* third and the first shortcut
C25_Witness ==
    /\ sel_mode = "set"
    /\ sel_pc = "done"
    /\ Len(sel_shortcuts) = 3
    /\ sel_indices = [present |-> TRUE, list |-> <<2, 0>>]
    /\ sel_result = <<ShortcutId(2), ShortcutId(0)>>
    /\ sel_count = 2

\* C26: when run_quiz prompts its first shortcut, capturing is active: the
\* capture file exists.
C26_CapturingAtFirstPrompt ==
    [][(prompted = <<>> /\ prompted' # <<>>) => file_exists']_vars

\* C27: a call of ensure_trainer_off or ensure_trainer_on sends no toggle and
\* returns true at once when its first look at the capture file shows the
\* requested state; otherwise it sends one toggle, and its polling loop sends
\* none. Nothing but these calls and the user at the manual prompt sends a
\* toggle.
C27_AtMostOneToggle ==
    /\ [][off_calls' # off_calls
            => IF file_exists
               THEN /\ pending_toggles' = pending_toggles + 1
                    /\ pc' \in {"pre_off_poll", "post_off_poll"}
               ELSE /\ pending_toggles' = pending_toggles
                    /\ last_ok'
                    /\ pc' \in {"wait_enter", "results"}]_vars
    /\ [][(pc = "on" /\ pc' \notin {"on", "raised"})
            => IF file_exists
               THEN /\ pending_toggles' = pending_toggles
                    /\ last_ok'
                    /\ pc' \in {"prompt", "post_off"}
               ELSE /\ pending_toggles' = pending_toggles + 1
                    /\ pc' = "on_poll"]_vars
    /\ [][(pc \in {"pre_off_poll", "post_off_poll", "on_poll"})
            => (pending_toggles' <= pending_toggles)]_vars
    /\ [][pending_toggles' > pending_toggles
            => (off_calls' # off_calls \/ pc = "on" \/ pc = "manual")]_vars

\* C27 witness: ensure_trainer_off found capturing off and sent nothing, and
\* ensure_trainer_on has sent its one toggle and polled three times since
C27_Witness ==
    /\ pc = "on_poll"
    /\ off_calls = 1
    /\ polls = 3
    /\ pending_toggles = 1
    /\ ~file_exists

\* C28: the tokens a _practice_loop leaves unprocessed when a sentinel, an
\* emergency or a matching token ends its shortcut are dropped with its batch,
\* and no read made for a later shortcut returns them: it starts behind them.
C28_LeftoverNeverDelivered ==
    /\ (pc = "classify" /\ dropped_to > 0) => read_from >= dropped_to
    /\ pc \in {"stats", "raised"} => batch = <<>>

RECURSIVE Counted(_)
Counted(tokens) ==
    IF tokens = <<>> THEN <<>>
    ELSE IF \/ lower(Head(tokens)) \in {K_backtick, W_backtick, W_grave}
            \/ normalize_keys(Head(tokens)) \in {K_ctrl_c, K_cmd_q, K_cmd_dot}
         THEN Counted(Tail(tokens))
         ELSE <<Head(tokens)>> \o Counted(Tail(tokens))

\* C30: when a shortcut is completed, the attempt count recorded for it is
\* the number of tokens read since its prompt, up to and with the matching
\* one, that are neither sentinel nor emergency, a bare modifier counting as
\* any other token; while a shortcut is practised the counter is the number
\* of such tokens classified since its prompt.
C30_AttemptsCountTokens ==
    /\ (pc = "stats" /\ result = "completed") =>
          \E n \in 1..Len(returned) :
              /\ normalize_keys(returned[n]) = normalize_keys(shortcuts[idx].keys)
              /\ \A m \in 1..(n - 1) :
                    normalize_keys(returned[m]) # normalize_keys(shortcuts[idx].keys)
              /\ stats.attempts = Append(stats_before.attempts,
                                         Len(Counted(SubSeq(returned, 1, n))))
              /\ Len(Counted(SubSeq(returned, 1, n))) = n
    /\ pc \in {"loop", "classify"} =>
          attempts = Len(Counted(SubSeq(returned, 1, Len(returned) - Len(batch))))

\* C30 witness: the user pressed the bare modifier cmd and then cmd+s, and
\* the shortcut is completed with two attempts
C30_Witness ==
    /\ pc = "stats"
    /\ result = "completed"
    /\ returned = <<W_cmd, K_cmd_s>>
    /\ shortcuts[idx].keys = K_cmd_s
    /\ stats.attempts = <<2>>

\* C38: normalize_keys is idempotent: normalizing the result of normalize_keys
\* again gives the same string, for every token of the harness, those with
\* embedded whitespace, unrecognised prefix segments or an empty main key
\* included.
C38_NormalizeIdempotent ==
    nk_done => normalize_keys(nk_result) = nk_result

\* the sum of the values of a counter table
RECURSIVE SumOf(_, _)
SumOf(f, S) ==
    IF S = {} THEN 0
    ELSE LET x == CHOOSE y \in S : TRUE IN f[x] + SumOf(f, S \ {x})

\* the counters of the statistics, one number each
CounterValues(st) ==
    <<st.completed, st.skipped, Len(st.attempts)>>
        \o [i \in 1..Cardinality(DOMAIN st.by_difficulty) |->
                st.by_difficulty[CHOOSE d \in DOMAIN st.by_difficulty :
                    Cardinality({e \in DOMAIN st.by_difficulty : e < d}) = i - 1]]
        \o <<SumOf(st.by_category, DOMAIN st.by_category)>>

\* C34: whenever run_quiz has accounted for every shortcut practised so far,
\* completed equals the number of recorded attempt counts and the sum of
\* by_difficulty, the sum of by_category is at most completed, and completed
\* plus skipped is at most the number of shortcuts prompted; and while the
\* session runs no counter decreases.
C34_CountersConsistent ==
    /\ [](pc \in AccountedPcs
            => /\ stats.completed = Len(stats.attempts)
               /\ stats.completed = SumOf(stats.by_difficulty, DOMAIN stats.by_difficulty)
               /\ SumOf(stats.by_category, DOMAIN stats.by_category) <= stats.completed
               /\ stats.completed + stats.skipped <= Len(prompted))
    /\ [][(pc' # "exited")
            => \A i \in DOMAIN CounterValues(stats) :
                   CounterValues(stats')[i] >= CounterValues(stats)[i]]_vars

\* C34 witness: a session of two shortcuts, both completed, the second of a
\* category the statistics do not list: by_category sums to less than
\* completed
C34_Witness ==
    /\ pc = "returned"
    /\ stats.completed = 2
    /\ Len(stats.attempts) = 2
    /\ SumOf(stats.by_difficulty, DOMAIN stats.by_difficulty) = 2
    /\ SumOf(stats.by_category, DOMAIN stats.by_category) = 1
    /\ Len(prompted) = 2

\* C35: in the list show_results prints, every shortcut of the session whose
\* outcome was completed is marked completed and every one whose outcome was
\* skipped is marked skipped, in whatever order the outcomes came.
C35_MarksFollowOutcomes ==
    pc = "returned"
        => \A i \in DOMAIN outcomes :
              outcomes[i] \in {"completed", "skipped"}
                  => i \in DOMAIN shown /\ shown[i] = outcomes[i]

\* the classification the statement gives: a "+", one of the four named
\* keys, or the prefix of the function keys
MeaningfulAsStated(key) ==
    \/ "+" \in Range(key)
    \/ lower(key) \in {W_space, W_return, W_delete, W_tab}
    \/ (key # <<>> /\ lower(<<Head(key)>>) = <<"f">>)

\* a hint is due: low difficulty and more than two attempts
HintDue == hm_difficulty <= 2 /\ hm_attempts > 2

\* C39 as stated: a mismatching token is meaningful iff it holds a "+", is
\* one of space, return, delete, tab or starts with the function-key prefix;
\* a meaningful mismatch prints "Try again" and exactly one hint when the
\* shortcut is of low difficulty and more than two attempts were made, and no
\* hint otherwise; a token that is not meaningful gets neither.
C39_OneHintAsStated ==
    hm_done
        => /\ hm_out.try_again = MeaningfulAsStated(hm_key)
           /\ Len(hm_out.hints) =
                 IF MeaningfulAsStated(hm_key) /\ HintDue THEN 1 ELSE 0

\* modifiers of the expected shortcut that the token lacks
MissingModifiers ==
    (Range(split(hm_expected, "+")) \ Range(split(normalize_keys(hm_key), "+")))
        \cap ModifierNames

\* Ctrl was typed, is not expected, and Cmd is expected
CtrlForCmd ==
    /\ W_ctrl \in Range(split(normalize_keys(hm_key), "+"))
    /\ W_ctrl \notin Range(split(hm_expected, "+"))
    /\ W_cmd \in Range(split(hm_expected, "+"))

\* C39, amended: the classification is as stated; a token that is not
\* meaningful gets no "Try again" and no hint; a meaningful mismatch prints
\* "Try again", and hints only when the shortcut is of low difficulty and
\* more than two attempts were made: then one hint on a missing modifier
\* when the token lacks a modifier of the shortcut (one, however many it
\* lacks), followed by the hint on Ctrl for Cmd when Ctrl was typed where Cmd
\* is expected: none, one or two hints.
C39_HintsOnModifiers ==
    hm_done
        => /\ hm_out.try_again = MeaningfulAsStated(hm_key)
           /\ (~(MeaningfulAsStated(hm_key) /\ HintDue) => hm_out.hints = <<>>)
           /\ (MeaningfulAsStated(hm_key) /\ HintDue)
                 => LET hs == hm_out.hints
                        named == {i \in DOMAIN hs : hs[i] \in ModifierNames}
                    IN  /\ Len(hs) <= 2
                        /\ Cardinality(named) = IF MissingModifiers = {} THEN 0 ELSE 1
                        /\ \A i \in named : i = 1 /\ hs[i] \in MissingModifiers
                        /\ (H_cmd_not_ctrl \in Range(hs)) = CtrlForCmd
                        /\ Len(hs) = Cardinality(named) + (IF CtrlForCmd THEN 1 ELSE 0)

\* C39 witness: ctrl+s typed for cmd+s, third attempt, difficulty 1: "Try
\* again" and two hints
C39_Witness ==
    /\ hm_done
    /\ hm_key = K_ctrl_s
    /\ hm_expected = K_cmd_s
    /\ hm_difficulty = 1
    /\ hm_attempts = 3
    /\ hm_out = [try_again |-> TRUE, hints |-> <<W_cmd, H_cmd_not_ctrl>>]

C37_FreestyleReturnsToMenu ==
    /\ [][(lpc = "menu" /\ lpc' = "fg_run")
             => (sup_ret'.op = "stop" /\ interceptor_process' = NoPid)]_vars
    /\ [][(lpc = "foreground" /\ lpc' # "foreground")
             => (lpc' = "menu" /\ sup_ret'.op = "start")]_vars

\* s is an initial part of t
IsPrefix(s, t) == Len(s) <= Len(t) /\ s = SubSeq(t, 1, Len(s))

\* C32: the tokens read_new_keys has returned from the current file since
\* the cursor was reset are the lines the interceptor has written to it, in
\* order and whole: none is a part of a line, none is skipped, also when a
\* read happens while a line is written in part.
C32_TokensAreWholeLines ==
    (pc \in {"harness", "watch_done"} /\ file_exists) => IsPrefix(chan_got, chan_expected)

\* C33: after a read of the existing file that raised no error, every line
\* written to the current file since the cursor was last reset has been
\* returned, also when the file was removed and created anew since the
\* previous read (lines written in part are left out: C32).
C33_RecreatedFileIsRead ==
    (file_exists /\ read_status = "ok" /\ ~chan_partial) => chan_got = chan_expected

\* a token that ends the practice loop of the shortcut being practised
IsTerminal(key) ==
    \/ lower(key) \in {W_backtick, W_grave}
    \/ key = <<BQ>>
    \/ normalize_keys(key) \in {K_ctrl_c, K_cmd_q, K_cmd_dot}
    \/ normalize_keys(key) = normalize_keys(shortcuts[idx].keys)

\* the capture file holds a terminal token appended since the prompt
TerminalAppended ==
    /\ file_exists
    /\ \E i \in DOMAIN LinesBetween(fresh_from, Len(file_content)) :
          IsTerminal(LinesBetween(fresh_from, Len(file_content))[i])

\* C31: one run of _practice_loop stays with one shortcut and returns only
\* when it classifies a sentinel token (skipped or exit), an emergency
\* combination (exit) or a matching token (completed): no count of polls and
\* no state of the capture file ends it (an exception apart); and it does
\* return when such a token has been appended to the capture file: the loop
\* does not go on forever with a terminal token in the file.
C31_LoopEndsByTokenOnly ==
    /\ [][(pc \in LoopPcs /\ pc' \notin {"raised"})
             => /\ idx' = idx
                /\ (pc' \notin LoopPcs)
                      => /\ pc = "classify" /\ pc' = "stats"
                         /\ IsTerminal(Head(batch))
                         /\ \/ ended_by' = "sentinel" /\ result' \in {"skipped", "exit"}
                            \/ ended_by' = "emergency" /\ result' = "exit"
                            \/ ended_by' = "match" /\ result' = "completed"]_vars
    /\ []<>~(pc \in LoopPcs /\ TerminalAppended)

====
